---- MODULE Spec2Model ----
(***************************************************************************)
(* jsonmsg: the message-processing state machine that golang/server.go     *)
(* synthesizes (processMessage of NewAPIMux) over a parsed jsonmsg.Spec,   *)
(* the HTTP and websocket handlers around it, and jsonmsg.Parse, JSONSpec, *)
(* HTTPSpec and golang.ServerSrc over a spec document.                     *)
(***************************************************************************)
EXTENDS Integers, Sequences, FiniteSets, TLC

VARIABLES
    pc,       \* position inside processMessage
    in,       \* the inbound bytes handed to processMessage
    m,        \* var m message, the decoded envelope
    matched,  \* the key of the message block that matched m.Msg
    data,     \* var data <InSchema.Name>, the decoded input payload
    invoked,  \* the API methods called while processing, in call order
    hres,     \* what the API method returned: (outs, err)
    chosen,   \* the position in OutSchemas of the out whose block was entered
    resp,     \* what processMessage returned: (out, status)
    conn,     \* the websocket handler: its position, the frames read and written
    rw,       \* an HTTP exchange: the request and what was written to the ResponseWriter
    ps,       \* jsonmsg.Parse, Spec.JSONSpec and golang.ServerSrc over a document
    nm,       \* goNameFromStrings: the parts of a call and what it returned
    cs        \* the handlers running at once: each one's locals, frames and writes

vars == <<pc, in, m, matched, data, invoked, hres, chosen, resp, conn, rw, ps, nm, cs>>

\* the state of processMessage
pvars == <<pc, in, m, matched, data, invoked, hres, chosen, resp>>

\* the state outside processMessage
tvars == <<conn, rw, ps, nm, cs>>

-----------------------------------------------------------------------------
(* Bounds of the model *)

\* the values a string property of a payload ranges over: 1..MaxVal
MaxVal == 2
\* the distinct causes a handler error ranges over: 1..MaxCauses
MaxCauses == 2

-----------------------------------------------------------------------------
(* Go values *)

\* Go's nil: a nil pointer, a nil error, a nil interface
Nil == [nil |-> TRUE]

StatusOK == 200
StatusNotFound == 404
StatusUnprocessableEntity == 422
StatusInternalServerError == 500
StatusMethodNotAllowed == 405

\* errors.New(text)
NewError(text) == [Error |-> text]

-----------------------------------------------------------------------------
(* The parsed Spec the dispatcher is generated from: the fixtures' messages *)
(* and definitions, plus a message that declares three outputs and one     *)
(* whose key is the reserved "fetchSpec".                                  *)

\* jsonschema.Index: pointer -> schema (Name, JSONName, properties, required)
Definitions ==
    [ credentials |-> [Name |-> "Credentials", JSONName |-> "credentials",
                       Properties |-> <<"name", "password">>, Required |-> << >>],
      session     |-> [Name |-> "Session", JSONName |-> "session",
                       Properties |-> <<"id">>, Required |-> << >>],
      error       |-> [Name |-> "Error", JSONName |-> "error",
                       Properties |-> <<"error">>, Required |-> << >>],
      message     |-> [Name |-> "Message", JSONName |-> "message",
                       Properties |-> <<"message">>, Required |-> <<"message">>] ]

\* Spec.Messages after Parse: key -> Message (Msg, Name, InSchema, OutSchemas)
Messages ==
    [ fetchSpec            |-> [Msg |-> "fetchSpec", Name |-> "FetchSpec",
                                InSchema |-> Nil,
                                OutSchemas |-> <<Definitions.session>>],
      loginWithCredentials |-> [Msg |-> "loginWithCredentials",
                                Name |-> "LoginWithCredentials",
                                InSchema |-> Definitions.credentials,
                                OutSchemas |-> <<Definitions.session, Definitions.error>>],
      logout               |-> [Msg |-> "logout", Name |-> "Logout",
                                InSchema |-> Definitions.session,
                                OutSchemas |-> <<Definitions.message>>],
      notify               |-> [Msg |-> "notify", Name |-> "Notify",
                                InSchema |-> Nil,
                                OutSchemas |-> <<Definitions.session, Definitions.message,
                                                 Definitions.error>>],
      sayHello             |-> [Msg |-> "sayHello", Name |-> "SayHello",
                                InSchema |-> Definitions.message,
                                OutSchemas |-> <<Definitions.message>>],
      subscribeEmpty       |-> [Msg |-> "subscribeEmpty", Name |-> "SubscribeEmpty",
                                InSchema |-> Nil, OutSchemas |-> << >>],
      subscribeInOnly      |-> [Msg |-> "subscribeInOnly", Name |-> "SubscribeInOnly",
                                InSchema |-> Definitions.message, OutSchemas |-> << >>],
      subscribeOutsOnly    |-> [Msg |-> "subscribeOutsOnly", Name |-> "SubscribeOutsOnly",
                                InSchema |-> Nil,
                                OutSchemas |-> <<Definitions.message>>] ]

\* {{ range .Messages }}: a template ranges over a map in sorted key order
RangeMessages ==
    <<"fetchSpec", "loginWithCredentials", "logout", "notify", "sayHello",
      "subscribeEmpty", "subscribeInOnly", "subscribeOutsOnly">>

\* newEmbeddedSpec(): the machine-readable spec document embedded in the source
newEmbeddedSpec == [messages |-> Messages, definitions |-> Definitions]

-----------------------------------------------------------------------------
(* Payloads: values of the Go types generated for the definitions.  Every  *)
(* property is a *string; a nil property is left out of the function.      *)

Range(seq) == {seq[i] : i \in 1..Len(seq)}

Min(S) == CHOOSE x \in S : \A y \in S : x <= y

Values == 1..MaxVal

\* the assignments of some of the properties props
PartialFields(props) == UNION {[S -> Values] : S \in SUBSET Range(props)}

\* the values of the struct generated for schema
Instances(schema) ==
    {[type |-> schema.Name, fields |-> f] : f \in PartialFields(schema.Properties)}

\* var data T: the zero value, every property nil
ZeroValue(schema) == [type |-> schema.Name, fields |-> << >>]

\* func (t *T) Validate() error: the first required property that is nil
Validate(schema, v) ==
    LET missing == {i \in 1..Len(schema.Required) :
                        schema.Required[i] \notin DOMAIN v.fields}
    IN  IF missing = {}
        THEN Nil
        ELSE NewError("invalid " \o schema.JSONName \o ": missing "
                      \o schema.Required[Min(missing)])

-----------------------------------------------------------------------------
(* The wire: inbound bytes and what encoding/json makes of them *)

\* the raw JSON of an envelope's data member
AbsentData == [json |-> "absent"]
RawData ==
    {AbsentData, [json |-> "null"], [json |-> "string"]}
    \cup {[json |-> "object", fields |-> f] :
            f \in UNION {PartialFields(Definitions[d].Properties) : d \in DOMAIN Definitions}}

\* the msg members tried: the declared keys, an undeclared one, none at all
MsgNames == DOMAIN Messages \cup {"unknownMsg", ""}

\* inbound bodies: bytes that are no JSON envelope (sent for message msg),
\* and JSON objects with a msg and a data member
Bodies ==
    {[json |-> "garbage", msg |-> k] : k \in MsgNames}
    \cup {[json |-> "object", msg |-> k, data |-> d] : k \in MsgNames, d \in RawData}

\* message{}: the zero envelope
ZeroMessage == [Msg |-> "", Data |-> AbsentData]

\* json.Unmarshal(in, &m)
UnmarshalMessage(b) ==
    IF b.json = "object"
    THEN [err |-> Nil, m |-> [Msg |-> b.msg, Data |-> b.data]]
    ELSE [err |-> NewError("invalid character"), m |-> ZeroMessage]

\* json.Unmarshal(m.Data, &data) into the struct generated for schema
UnmarshalData(raw, schema) ==
    CASE raw.json = "absent" ->
            [err |-> NewError("unexpected end of JSON input"), v |-> ZeroValue(schema)]
      [] raw.json = "null" ->
            [err |-> Nil, v |-> ZeroValue(schema)]
      [] raw.json = "object" ->
            [err |-> Nil,
             v |-> [type |-> schema.Name,
                    fields |-> [p \in DOMAIN raw.fields \cap Range(schema.Properties)
                                    |-> raw.fields[p]]]]
      [] OTHER ->
            [err |-> NewError("json: cannot unmarshal string into Go value"),
             v |-> ZeroValue(schema)]

-----------------------------------------------------------------------------
(* generateHelper: the outbound envelopes *)

newValueMessage(msg, d) == [Msg |-> msg, Data |-> d]

newErrorMessage(e) == [Msg |-> "error", Data |-> [Error |-> e]]

UnparsableRequestErrorMessage == newErrorMessage("unparsable message")
InternalErrorMessage == newErrorMessage("internal error")
UnknownMessageErrorMessage == newErrorMessage("unknown message")
InvalidMethodErrorMessage == newErrorMessage("only POST method allowed")

-----------------------------------------------------------------------------
(* The user-supplied API: what a handler may return *)

\* the causes of a handler's error
Causes == {NewError("cause " \o ToString(c)) : c \in 1..MaxCauses}

\* *<Name>Outs: nil, or a struct with one pointer field per out schema
OutsRecords(msg) ==
    IF msg.OutSchemas = << >>
    THEN {Nil}
    ELSE {Nil} \cup
         {o \in [{msg.OutSchemas[i].Name : i \in 1..Len(msg.OutSchemas)} ->
                    {Nil} \cup UNION {Instances(msg.OutSchemas[i]) :
                                        i \in 1..Len(msg.OutSchemas)}] :
            \A i \in 1..Len(msg.OutSchemas) :
                o[msg.OutSchemas[i].Name] \in {Nil} \cup Instances(msg.OutSchemas[i])}

HandlerResults(msg) == [outs : OutsRecords(msg), err : {Nil} \cup Causes]

-----------------------------------------------------------------------------
(* processMessage *)

\* return out, status
Return(out, status) ==
    /\ resp' = [out |-> out, status |-> status]
    /\ pc' = "done"

\* a scan that keeps the last non-nil out instead of returning at the first
SelectLastOut(schemas, outs) ==
    LET nonnil == {i \in 1..Len(schemas) : outs[schemas[i].Name] # Nil}
    IN  IF nonnil = {} THEN 0 ELSE CHOOSE x \in nonnil : \A y \in nonnil : y <= x

\* {{ range .OutSchemas }} if outs.<Name> != nil: the first block entered, 0 if none
SelectOut(schemas, outs) ==
    LET nonnil == {i \in 1..Len(schemas) : outs[schemas[i].Name] # Nil}
    IN  IF nonnil = {} THEN 0 ELSE Min(nonnil)

\* processMessage has not been called yet
Idle ==
    /\ pc = "idle"
    /\ in = [json |-> "none"]
    /\ m = ZeroMessage
    /\ matched = ""
    /\ data = Nil
    /\ invoked = << >>
    /\ hres = Nil
    /\ chosen = 0
    /\ resp = Nil

Init ==
    /\ Idle
    /\ conn = Nil
    /\ rw = Nil
    /\ ps = Nil
    /\ nm = Nil
    /\ cs = Nil

\* processMessage is called with the bytes of a request body or of a frame
Receive(b) ==
    /\ pc \in {"idle", "done"}
    /\ in' = b
    /\ pc' = "EnvelopeParse"
    /\ m' = ZeroMessage
    /\ matched' = ""
    /\ data' = Nil
    /\ invoked' = << >>
    /\ hres' = Nil
    /\ chosen' = 0
    /\ resp' = Nil

\* the envelope's parse error is not checked
EnvelopeParseUnchecked ==
    /\ pc = "EnvelopeParse"
    /\ m' = UnmarshalMessage(in).m
    /\ pc' = "FetchSpec"
    /\ UNCHANGED <<in, matched, data, invoked, hres, chosen, resp>>

\* parse message
EnvelopeParse ==
    /\ pc = "EnvelopeParse"
    /\ LET r == UnmarshalMessage(in)
       IN  IF r.err # Nil
           THEN /\ Return(UnparsableRequestErrorMessage, StatusUnprocessableEntity)
                /\ UNCHANGED m
           ELSE /\ m' = r.m
                /\ pc' = "FetchSpec"
                /\ UNCHANGED resp
    /\ UNCHANGED <<in, matched, data, invoked, hres, chosen>>

\* fetchSpec answered only when no declared message has that key
FetchSpecAfterMessages ==
    /\ pc = "FetchSpec"
    /\ IF m.Msg = "fetchSpec" /\ "fetchSpec" \notin DOMAIN Messages
       THEN Return(newValueMessage("spec", newEmbeddedSpec), StatusOK)
       ELSE pc' = "Dispatch" /\ UNCHANGED resp
    /\ UNCHANGED <<in, m, matched, data, invoked, hres, chosen>>

\* fetchSpec
FetchSpec ==
    /\ pc = "FetchSpec"
    /\ IF m.Msg = "fetchSpec"
       THEN Return(newValueMessage("spec", newEmbeddedSpec), StatusOK)
       ELSE pc' = "Dispatch" /\ UNCHANGED resp
    /\ UNCHANGED <<in, m, matched, data, invoked, hres, chosen>>

\* an unknown msg answered as an unparsable one
DispatchUnknownAsUnparsable ==
    /\ pc = "Dispatch"
    /\ LET hits == {i \in 1..Len(RangeMessages) :
                        Messages[RangeMessages[i]].Msg = m.Msg}
       IN  IF hits = {}
           THEN /\ Return(UnparsableRequestErrorMessage, StatusUnprocessableEntity)
                /\ UNCHANGED matched
           ELSE /\ matched' = RangeMessages[Min(hits)]
                /\ pc' = IF Messages[matched'].InSchema # Nil
                         THEN "InputDecode" ELSE "Invoke"
                /\ UNCHANGED resp
    /\ UNCHANGED <<in, m, data, invoked, hres, chosen>>

\* a dispatch that calls the API method without decoding the input
DispatchToInvoke ==
    /\ pc = "Dispatch"
    /\ LET hits == {i \in 1..Len(RangeMessages) :
                        Messages[RangeMessages[i]].Msg = m.Msg}
       IN  IF hits = {}
           THEN /\ Return(UnknownMessageErrorMessage, StatusNotFound)
                /\ UNCHANGED matched
           ELSE /\ matched' = RangeMessages[Min(hits)]
                /\ pc' = "Invoke"
                /\ UNCHANGED resp
    /\ UNCHANGED <<in, m, data, invoked, hres, chosen>>

\* a dispatch that takes data sent to a message without an input for an
\* unparsable message
DispatchDataRefused ==
    /\ pc = "Dispatch"
    /\ LET hits == {i \in 1..Len(RangeMessages) :
                        Messages[RangeMessages[i]].Msg = m.Msg}
       IN  IF hits = {}
           THEN /\ Return(UnknownMessageErrorMessage, StatusNotFound)
                /\ UNCHANGED matched
           ELSE /\ matched' = RangeMessages[Min(hits)]
                /\ IF Messages[matched'].InSchema # Nil
                   THEN pc' = "InputDecode" /\ UNCHANGED resp
                   ELSE IF m.Data # AbsentData
                   THEN Return(UnparsableRequestErrorMessage, StatusUnprocessableEntity)
                   ELSE pc' = "Invoke" /\ UNCHANGED resp
    /\ UNCHANGED <<in, m, data, invoked, hres, chosen>>

\* the chain of if m.Msg == "<key>" blocks, then // unknown msg
Dispatch ==
    /\ pc = "Dispatch"
    /\ LET hits == {i \in 1..Len(RangeMessages) :
                        Messages[RangeMessages[i]].Msg = m.Msg}
       IN  IF hits = {}
           THEN /\ Return(UnknownMessageErrorMessage, StatusNotFound)
                /\ UNCHANGED matched
           ELSE /\ matched' = RangeMessages[Min(hits)]
                /\ pc' = IF Messages[matched'].InSchema # Nil
                         THEN "InputDecode" ELSE "Invoke"
                /\ UNCHANGED resp
    /\ UNCHANGED <<in, m, data, invoked, hres, chosen>>

\* a decoding whose error is dropped: the zero value goes on to Validate
InputDecodeUnchecked ==
    /\ pc = "InputDecode"
    /\ data' = UnmarshalData(m.Data, Messages[matched].InSchema).v
    /\ pc' = "InputValidate"
    /\ UNCHANGED <<in, m, matched, invoked, hres, chosen, resp>>

\* parse data
InputDecode ==
    /\ pc = "InputDecode"
    /\ LET r == UnmarshalData(m.Data, Messages[matched].InSchema)
       IN  IF r.err # Nil
           THEN /\ Return(UnparsableRequestErrorMessage, StatusUnprocessableEntity)
                /\ UNCHANGED data
           ELSE /\ data' = r.v
                /\ pc' = "InputValidate"
                /\ UNCHANGED resp
    /\ UNCHANGED <<in, m, matched, invoked, hres, chosen>>

\* a failed input validation answered with the generic unparsable envelope
InputValidateGeneric ==
    /\ pc = "InputValidate"
    /\ LET err == Validate(Messages[matched].InSchema, data)
       IN  IF err # Nil
           THEN Return(UnparsableRequestErrorMessage, StatusUnprocessableEntity)
           ELSE pc' = "Invoke" /\ UNCHANGED resp
    /\ UNCHANGED <<in, m, matched, data, invoked, hres, chosen>>

\* err = data.Validate()
InputValidate ==
    /\ pc = "InputValidate"
    /\ LET err == Validate(Messages[matched].InSchema, data)
       IN  IF err # Nil
           THEN Return(newErrorMessage(err.Error), StatusUnprocessableEntity)
           ELSE pc' = "Invoke" /\ UNCHANGED resp
    /\ UNCHANGED <<in, m, matched, data, invoked, hres, chosen>>

\* dispatch message: the call of i.<Name>
Invoke ==
    /\ pc = "Invoke"
    /\ invoked' = Append(invoked, Messages[matched].Name)
    /\ pc' = "Handler"
    /\ UNCHANGED <<in, m, matched, data, hres, chosen, resp>>

\* the handler's error echoed to the caller
HandlerReturnEchoCause ==
    /\ pc = "Handler"
    /\ \E r \in HandlerResults(Messages[matched]) :
        /\ hres' = r
        /\ IF r.err # Nil
           THEN Return(newErrorMessage(r.err.Error), StatusInternalServerError)
           ELSE IF Messages[matched].OutSchemas = << >>
                THEN Return(Nil, StatusOK)
                ELSE pc' = "OutputSelect" /\ UNCHANGED resp
    /\ UNCHANGED <<in, m, matched, data, invoked, chosen>>

\* the handler's error answered with the internal error under status 200
HandlerReturnStatusOK ==
    /\ pc = "Handler"
    /\ \E r \in HandlerResults(Messages[matched]) :
        /\ hres' = r
        /\ IF r.err # Nil
           THEN Return(InternalErrorMessage, StatusOK)
           ELSE IF Messages[matched].OutSchemas = << >>
                THEN Return(Nil, StatusOK)
                ELSE pc' = "OutputSelect" /\ UNCHANGED resp
    /\ UNCHANGED <<in, m, matched, data, invoked, chosen>>

\* i.<Name> returns r; if err != nil; the else branch of {{ if .OutSchemas }}
HandlerReturn ==
    /\ pc = "Handler"
    /\ \E r \in HandlerResults(Messages[matched]) :
        /\ hres' = r
        /\ IF r.err # Nil
           THEN Return(InternalErrorMessage, StatusInternalServerError)
           ELSE IF Messages[matched].OutSchemas = << >>
                THEN Return(Nil, StatusOK)
                ELSE pc' = "OutputSelect" /\ UNCHANGED resp
    /\ UNCHANGED <<in, m, matched, data, invoked, chosen>>

\* no populated out and no error answered as an empty success
OutputSelectEmptySuccess ==
    /\ pc = "OutputSelect"
    /\ IF hres.outs = Nil
       THEN /\ Return(Nil, StatusOK)
            /\ UNCHANGED chosen
       ELSE LET i == SelectOut(Messages[matched].OutSchemas, hres.outs)
            IN  IF i = 0
                THEN /\ Return(Nil, StatusOK)
                     /\ UNCHANGED chosen
                ELSE /\ chosen' = i
                     /\ pc' = "OutputValidate"
                     /\ UNCHANGED resp
    /\ UNCHANGED <<in, m, matched, data, invoked, hres>>

\* handler returned nothing; select the first non-nil out; no outs and no error
OutputSelect ==
    /\ pc = "OutputSelect"
    /\ IF hres.outs = Nil
       THEN /\ Return(InternalErrorMessage, StatusInternalServerError)
            /\ UNCHANGED chosen
       ELSE LET i == SelectOut(Messages[matched].OutSchemas, hres.outs)
            IN  IF i = 0
                THEN /\ Return(InternalErrorMessage, StatusInternalServerError)
                     /\ UNCHANGED chosen
                ELSE /\ chosen' = i
                     /\ pc' = "OutputValidate"
                     /\ UNCHANGED resp
    /\ UNCHANGED <<in, m, matched, data, invoked, hres>>

\* the output validator's message echoed to the caller
OutputValidateEcho ==
    /\ pc = "OutputValidate"
    /\ LET o == Messages[matched].OutSchemas[chosen]
           err == Validate(o, hres.outs[o.Name])
       IN  IF err # Nil
           THEN Return(newErrorMessage(err.Error), StatusInternalServerError)
           ELSE Return(newValueMessage(o.JSONName, hres.outs[o.Name]), StatusOK)
    /\ UNCHANGED <<in, m, matched, data, invoked, hres, chosen>>

\* the out returned under its Go type name instead of its wire name
OutputValidateGoName ==
    /\ pc = "OutputValidate"
    /\ LET o == Messages[matched].OutSchemas[chosen]
           err == Validate(o, hres.outs[o.Name])
       IN  IF err # Nil
           THEN Return(InternalErrorMessage, StatusInternalServerError)
           ELSE Return(newValueMessage(o.Name, hres.outs[o.Name]), StatusOK)
    /\ UNCHANGED <<in, m, matched, data, invoked, hres, chosen>>

\* a validation that falls back to a later populated out that is valid
OutputValidateFallback ==
    /\ pc = "OutputValidate"
    /\ LET schemas == Messages[matched].OutSchemas
           valid == {i \in chosen..Len(schemas) :
                        /\ hres.outs[schemas[i].Name] # Nil
                        /\ Validate(schemas[i], hres.outs[schemas[i].Name]) = Nil}
       IN  IF valid = {}
           THEN Return(InternalErrorMessage, StatusInternalServerError)
           ELSE Return(newValueMessage(schemas[Min(valid)].JSONName,
                                       hres.outs[schemas[Min(valid)].Name]), StatusOK)
    /\ UNCHANGED <<in, m, matched, data, invoked, hres, chosen>>

\* err = outs.<Name>.Validate(), then the out is returned
OutputValidate ==
    /\ pc = "OutputValidate"
    /\ LET o == Messages[matched].OutSchemas[chosen]
           err == Validate(o, hres.outs[o.Name])
       IN  IF err # Nil
           THEN Return(InternalErrorMessage, StatusInternalServerError)
           ELSE Return(newValueMessage(o.JSONName, hres.outs[o.Name]), StatusOK)
    /\ UNCHANGED <<in, m, matched, data, invoked, hres, chosen>>

Next ==
    \/ \E b \in Bodies : Receive(b) /\ UNCHANGED tvars
    \/ EnvelopeParse /\ UNCHANGED tvars
    \/ FetchSpec /\ UNCHANGED tvars
    \/ Dispatch /\ UNCHANGED tvars
    \/ InputDecode /\ UNCHANGED tvars
    \/ InputValidate /\ UNCHANGED tvars
    \/ Invoke /\ UNCHANGED tvars
    \/ HandlerReturn /\ UNCHANGED tvars
    \/ OutputSelect /\ UNCHANGED tvars
    \/ OutputValidate /\ UNCHANGED tvars

Spec == Init /\ [][Next]_vars

-----------------------------------------------------------------------------
(* protocol: websocket.  The handler of GET /websocket: one connection,    *)
(* upgraded once, then read, processed and answered frame by frame.        *)

\* the frames read from one connection: 1..MaxFrames
MaxFrames == 3

\* the frames a peer sends, one or more per outcome of processMessage
WsFrames ==
    { [json |-> "garbage", msg |-> ""],
      [json |-> "object", msg |-> "unknownMsg", data |-> AbsentData],
      [json |-> "object", msg |-> "fetchSpec", data |-> AbsentData],
      [json |-> "object", msg |-> "sayHello", data |-> [json |-> "null"]],
      [json |-> "object", msg |-> "sayHello",
       data |-> [json |-> "object", fields |-> [message |-> 1]]],
      [json |-> "object", msg |-> "subscribeEmpty", data |-> AbsentData] }

\* whether v is an envelope whose Data is a value of a generated type
IsPayloadEnvelope(v) ==
    /\ "Data" \in DOMAIN v
    /\ "type" \in DOMAIN v.Data

\* the err of json.MarshalIndent(v, "", "  ") and of enc.Encode(v): nil for
\* nil, for the error envelopes and for the embedded spec; a payload is a
\* value of a type of the external generator that the handler built, and
\* encoding/json returns an error for a value it cannot encode
MarshalErrors(v) ==
    IF IsPayloadEnvelope(v)
    THEN {Nil, NewError("json: unsupported value")}
    ELSE {Nil}

\* the bytes of json.MarshalIndent(v, "", "  "): the JSON text of v, indented
MarshalIndent(v) == [json |-> v, indent |-> "  "]

\* a connection that has been accepted and not upgraded yet
NewConn ==
    [ at       |-> "upgrade",   \* the position of the handler
      upgraded |-> FALSE,       \* upgrader.Upgrade returned a connection
      read     |-> 0,           \* the frames conn.ReadMessage returned
      replies  |-> << >>,       \* what processMessage returned, frame by frame
      outbound |-> << >>,       \* the frames conn.WriteMessage wrote
      readErr  |-> Nil,         \* the err of the last conn.ReadMessage
      status   |-> 0,           \* the status written to the ResponseWriter
      closed   |-> FALSE ]      \* conn.Close was called

InitWS ==
    /\ Idle
    /\ conn = NewConn
    /\ rw = Nil
    /\ ps = Nil
    /\ nm = Nil
    /\ cs = Nil

\* conn, err := upgrader.Upgrade(w, r, nil); on an error 500 and return
WsUpgrade ==
    /\ conn.at = "upgrade"
    /\ \E ok \in BOOLEAN :
          conn' = IF ok
                  THEN [conn EXCEPT !.at = "read", !.upgraded = TRUE]
                  ELSE [conn EXCEPT !.at = "returned",
                                    !.status = StatusInternalServerError]
    /\ UNCHANGED <<pvars, rw, ps, nm, cs>>

\* a loop that reads the next frame as soon as processMessage returned,
\* before the reply to the frame before is written
WsReadAhead(frame) ==
    /\ conn.at \in {"read", "process"}
    /\ conn.read < MaxFrames
    /\ Receive(frame)
    /\ conn' = [conn EXCEPT !.at = "process", !.read = @ + 1]
    /\ UNCHANGED <<rw, ps, nm, cs>>

\* _, data, err := conn.ReadMessage() returned a frame: processMessage(data)
WsRead(frame) ==
    /\ conn.at = "read"
    /\ conn.read < MaxFrames
    /\ Receive(frame)
    /\ conn' = [conn EXCEPT !.at = "process", !.read = @ + 1]
    /\ UNCHANGED <<rw, ps, nm, cs>>

\* conn.ReadMessage() returned an error: the handler returns
WsReadError ==
    /\ conn.at = "read"
    /\ conn' = [conn EXCEPT !.at = "returned",
                            !.readErr = NewError("websocket: read failed")]
    /\ UNCHANGED <<pvars, rw, ps, nm, cs>>

\* a loop that gives up the connection after a frame that was not answered 200
WsReplyOrReturn ==
    /\ conn.at = "process"
    /\ pc = "done"
    /\ \E err \in MarshalErrors(resp.out) :
          conn' = [conn EXCEPT
                      !.at = IF resp.status = StatusOK THEN "read" ELSE "returned",
                      !.replies = Append(@, resp),
                      !.outbound = IF err = Nil
                                   THEN Append(@, MarshalIndent(resp.out))
                                   ELSE @]
    /\ UNCHANGED <<pvars, rw, ps, nm, cs>>

\* out, _ := processMessage(data); outMsg, err := json.MarshalIndent(out);
\* if err == nil { conn.WriteMessage(websocket.TextMessage, outMsg) }
WsReply ==
    /\ conn.at = "process"
    /\ pc = "done"
    /\ \E err \in MarshalErrors(resp.out) :
          conn' = [conn EXCEPT
                      !.at = "read",
                      !.replies = Append(@, resp),
                      !.outbound = IF err = Nil
                                   THEN Append(@, MarshalIndent(resp.out))
                                   ELSE @]
    /\ UNCHANGED <<pvars, rw, ps, nm, cs>>

NextWS ==
    \/ WsUpgrade
    \/ \E frame \in WsFrames : WsRead(frame)
    \/ WsReadError
    \/ EnvelopeParse /\ UNCHANGED tvars
    \/ FetchSpec /\ UNCHANGED tvars
    \/ Dispatch /\ UNCHANGED tvars
    \/ InputDecode /\ UNCHANGED tvars
    \/ InputValidate /\ UNCHANGED tvars
    \/ Invoke /\ UNCHANGED tvars
    \/ HandlerReturn /\ UNCHANGED tvars
    \/ OutputSelect /\ UNCHANGED tvars
    \/ OutputValidate /\ UNCHANGED tvars
    \/ WsReply

SpecWS == InitWS /\ [][NextWS]_vars

\* the statements of processMessage: straight-line code of the goroutine
\* that serves the connection, none of which waits for anything but the
\* return of the method it calls
ProcessStep ==
    /\ \/ EnvelopeParse
       \/ FetchSpec
       \/ Dispatch
       \/ InputDecode
       \/ InputValidate
       \/ Invoke
       \/ HandlerReturn
       \/ OutputSelect
       \/ OutputValidate
    /\ UNCHANGED tvars

\* The loop under a fair scheduler, with methods that return and writes
\* that complete: the goroutine goes on while it has a statement to run.
\* Nothing is assumed of the read, which waits for the peer.
SpecWSFair == SpecWS /\ WF_vars(ProcessStep) /\ WF_vars(WsReply)

-----------------------------------------------------------------------------
(* The handlers NewAPIMux registers on the mux for plain HTTP requests:     *)
(* GET <BasePath>/spec.json, GET <BasePath>/spec and, with protocol: http,  *)
(* POST <the path of the http endpoint>.                                    *)

\* r.Method: compared as a string, so a lower-case token is another method
Methods == {"GET", "HEAD", "POST", "post", "PUT", "DELETE", "OPTIONS"}

\* the patterns registered, by their last path element
Targets == {"spec.json", "spec", "http"}

\* the request bodies sent
HttpBodies == WsFrames

Requests == [method : Methods, target : Targets, body : HttpBodies]

\* newEmbeddedHTMLSpec(): the human-readable document rendered from the spec
newEmbeddedHTMLSpec == [html |-> newEmbeddedSpec]

\* enc.SetIndent("", "  "); enc.Encode(v): the indented JSON text of v and a
\* newline, written in one Write
Encode(v) == [json |-> v, indent |-> "  ", newline |-> TRUE]

\* w.Header() of a new ResponseWriter
NoHeader == [h \in {} |-> ""]

\* the headers the message endpoint sets before it looks at the method
MessageHeader ==
    [ h \in {"Content-Type", "Access-Control-Allow-Origin",
             "Access-Control-Allow-Headers", "Access-Control-Allow-Methods"} |->
        CASE h = "Content-Type" -> "application/json"
          [] h = "Access-Control-Allow-Origin" -> "*"
          [] h = "Access-Control-Allow-Headers" ->
                "Content-Type, Access-Control-Allow-Headers"
          [] h = "Access-Control-Allow-Methods" -> "POST" ]

ContentType(t) == [h \in {"Content-Type"} |-> t]

\* what a handler has done with one request
Exchange(at, req, header, status, body, bodyRead) ==
    [ at       |-> at,        \* "idle", "process" (inside processMessage), "served"
      req      |-> req,       \* r *http.Request
      header   |-> header,    \* w.Header()
      status   |-> status,    \* w.WriteHeader
      body     |-> body,      \* the Writes to w, in order
      bodyRead |-> bodyRead ] \* ioutil.ReadAll(r.Body) was called

\* a request served without a call of processMessage: none of its locals exists
NotProcessed ==
    /\ pc' = "idle"
    /\ in' = [json |-> "none"]
    /\ m' = ZeroMessage
    /\ matched' = ""
    /\ data' = Nil
    /\ invoked' = << >>
    /\ hres' = Nil
    /\ chosen' = 0
    /\ resp' = Nil

InitHTTP ==
    /\ Idle
    /\ conn = Nil
    /\ rw = Exchange("idle", Nil, NoHeader, 0, << >>, FALSE)
    /\ ps = Nil
    /\ nm = Nil
    /\ cs = Nil

\* a spec.json handler that does not look at the method
GetSpecJSONAnyMethod(req) ==
    /\ rw.at \in {"idle", "served"}
    /\ req.target = "spec.json"
    /\ NotProcessed
    /\ rw' = Exchange("served", req, ContentType("application/json"), StatusOK,
                      <<Encode(newEmbeddedSpec)>>, FALSE)
    /\ UNCHANGED <<conn, ps, nm, cs>>

\* GET /spec.json
GetSpecJSON(req) ==
    /\ rw.at \in {"idle", "served"}
    /\ req.target = "spec.json"
    /\ NotProcessed
    /\ rw' = IF req.method # "GET"
             THEN Exchange("served", req, ContentType("application/json"),
                           StatusMethodNotAllowed,
                           <<Encode(InvalidMethodErrorMessage)>>, FALSE)
             ELSE Exchange("served", req, ContentType("application/json"), StatusOK,
                           <<Encode(newEmbeddedSpec)>>, FALSE)
    /\ UNCHANGED <<conn, ps, nm, cs>>

\* GET /spec
GetSpec(req) ==
    /\ rw.at \in {"idle", "served"}
    /\ req.target = "spec"
    /\ NotProcessed
    /\ rw' = IF req.method # "GET"
             THEN Exchange("served", req, ContentType("text/html"),
                           StatusMethodNotAllowed,
                           <<Encode(InvalidMethodErrorMessage)>>, FALSE)
             ELSE Exchange("served", req, ContentType("text/html"), StatusOK,
                           <<newEmbeddedHTMLSpec>>, FALSE)
    /\ UNCHANGED <<conn, ps, nm, cs>>

\* a message endpoint that only tells OPTIONS from the rest
PostMessageAnyMethod(req) ==
    /\ rw.at \in {"idle", "served"}
    /\ req.target = "http"
    /\ IF req.method = "OPTIONS"
       THEN /\ NotProcessed
            /\ rw' = Exchange("served", req, MessageHeader, StatusOK, << >>, FALSE)
       ELSE \E err \in {Nil, NewError("unexpected EOF")} :
                IF err # Nil
                THEN /\ NotProcessed
                     /\ rw' = Exchange("served", req, MessageHeader,
                                       StatusInternalServerError, << >>, TRUE)
                ELSE /\ Receive(req.body)
                     /\ rw' = Exchange("process", req, MessageHeader, 0, << >>, TRUE)
    /\ UNCHANGED <<conn, ps, nm, cs>>

\* a message endpoint that takes OPTIONS for a POST after setting the headers
PostMessageNoPreflight(req) ==
    /\ rw.at \in {"idle", "served"}
    /\ req.target = "http"
    /\ IF req.method \notin {"POST", "OPTIONS"}
       THEN /\ NotProcessed
            /\ rw' = Exchange("served", req, MessageHeader, StatusMethodNotAllowed,
                              <<Encode(InvalidMethodErrorMessage)>>, FALSE)
       ELSE \E err \in {Nil, NewError("unexpected EOF")} :
                IF err # Nil
                THEN /\ NotProcessed
                     /\ rw' = Exchange("served", req, MessageHeader,
                                       StatusInternalServerError, << >>, TRUE)
                ELSE /\ Receive(req.body)
                     /\ rw' = Exchange("process", req, MessageHeader, 0, << >>, TRUE)
    /\ UNCHANGED <<conn, ps, nm, cs>>

\* POST /http, up to the call of processMessage
PostMessage(req) ==
    /\ rw.at \in {"idle", "served"}
    /\ req.target = "http"
    /\ CASE req.method = "OPTIONS" ->
                /\ NotProcessed
                /\ rw' = Exchange("served", req, MessageHeader, StatusOK, << >>, FALSE)
         [] req.method \notin {"OPTIONS", "POST"} ->
                /\ NotProcessed
                /\ rw' = Exchange("served", req, MessageHeader, StatusMethodNotAllowed,
                                  <<Encode(InvalidMethodErrorMessage)>>, FALSE)
         [] OTHER ->
                \E err \in {Nil, NewError("unexpected EOF")} :
                    IF err # Nil
                    THEN /\ NotProcessed
                         /\ rw' = Exchange("served", req, MessageHeader,
                                           StatusInternalServerError, << >>, TRUE)
                    ELSE /\ Receive(req.body)
                         /\ rw' = Exchange("process", req, MessageHeader, 0,
                                           << >>, TRUE)
    /\ UNCHANGED <<conn, ps, nm, cs>>

\* POST /http, after processMessage: w.WriteHeader(statusCode); enc.Encode(out)
PostMessageRespond ==
    /\ rw.at = "process"
    /\ pc = "done"
    /\ \E err \in MarshalErrors(resp.out) :
          rw' = [rw EXCEPT !.at = "served",
                           !.status = resp.status,
                           !.body = IF err = Nil THEN <<Encode(resp.out)>> ELSE << >>]
    /\ UNCHANGED <<pvars, conn, ps, nm, cs>>

NextHTTP ==
    \/ \E req \in Requests : GetSpecJSON(req)
    \/ \E req \in Requests : GetSpec(req)
    \/ \E req \in Requests : PostMessage(req)
    \/ EnvelopeParse /\ UNCHANGED tvars
    \/ FetchSpec /\ UNCHANGED tvars
    \/ Dispatch /\ UNCHANGED tvars
    \/ InputDecode /\ UNCHANGED tvars
    \/ InputValidate /\ UNCHANGED tvars
    \/ Invoke /\ UNCHANGED tvars
    \/ HandlerReturn /\ UNCHANGED tvars
    \/ OutputSelect /\ UNCHANGED tvars
    \/ OutputValidate /\ UNCHANGED tvars
    \/ PostMessageRespond

SpecHTTP == InitHTTP /\ [][NextHTTP]_vars

-----------------------------------------------------------------------------
(* jsonmsg.Parse, Spec.JSONSpec, Spec.HTTPSpec and golang.ServerSrc over a  *)
(* spec document.                                                          *)

\* the out pointers of one message of a document: at most MaxOuts
MaxOuts == 2

\* the keys of endpoints that the generators look for
Protocols == {"http", "websocket"}

\* the text of a URL by its parts, as url.Parse splits it; Path is the
\* sequence of the segments that its slashes start: "/v1" is <<"v1">>
URL(scheme, host, path) == [Scheme |-> scheme, Host |-> host, Path |-> path]

\* the text of a path: "/" and the segment, segment after segment
RECURSIVE PathText(_)
PathText(path) ==
    IF path = << >> THEN "" ELSE "/" \o Head(path) \o PathText(Tail(path))

\* (*url.URL).String
String(u) == u.Scheme \o "://" \o u.Host \o PathText(u.Path)

\* the URLs a document gives for protocol k
BaseURLs(k) ==
    IF k = "http"
    THEN {URL("https", "api.specc.io", <<"v1">>), URL("https", "api.specc.io", << >>)}
    ELSE {URL("wss", "api.specc.io", <<"v1">>)}

\* the JSON pointer of the definition named n
Pointer(n) == "#/definitions/" \o n

\* the pointers tried: none, defined ones, and one that no definition has
InPointers == {"", Pointer("credentials"), Pointer("user")}
OutPointers == {"", Pointer("session"), Pointer("error"), Pointer("user")}

SeqsUpTo(S, n) == UNION {[1..i -> S] : i \in 0..n}

\* the messages of a document: key -> (in, outs, group)
DocMessage(i, o, g) == [In |-> i, Outs |-> o, Group |-> g]

LoginBlocks ==
    {DocMessage(i, o, g) :
        i \in InPointers, o \in SeqsUpTo(OutPointers, MaxOuts), g \in {"", "auth"}}

LogoutBlocks ==
    {DocMessage(i, o, "") :
        i \in {"", Pointer("account")},
        o \in {<< >>, <<Pointer("message")>>, <<Pointer("account")>>}}

DocMessages ==
    {[k \in {} |-> DocMessage("", << >>, "")]}
    \cup {[k \in {"loginWithCredentials"} |-> l] : l \in LoginBlocks}
    \cup {[k \in {"loginWithCredentials", "logout"} |->
                IF k = "logout" THEN o ELSE l] : l \in LoginBlocks, o \in LogoutBlocks}

\* the endpoints of a document: every subset of the protocols, each with a URL
DocEndpoints ==
    UNION {{e \in [S -> UNION {BaseURLs(k) : k \in Protocols}] :
                \A k \in S : e[k] \in BaseURLs(k)} : S \in SUBSET Protocols}

\* one document: its JSON value and the indentation of its text
Document(e, ms, schema, indent) ==
    [ json        |-> "object",
      endpoints   |-> e,
      messages    |-> ms,
      definitions |-> Definitions,
      schema      |-> schema,      \* whether jsonschema.Parse accepts the document
      indent      |-> indent ]

\* the documents parsed: bytes that are no JSON, documents whose definitions
\* are no JSON Schema, and documents as the fixtures write them
Docs ==
    {[json |-> "garbage"]}
    \cup {Document(e, << >>, "invalid", "\t") : e \in DocEndpoints}
    \cup {Document(e, ms, "valid", "\t") : e \in DocEndpoints, ms \in DocMessages}

\* jsonschema.Parse(b): the index, pointer -> schema
Index(b) ==
    [p \in {Pointer(n) : n \in DOMAIN b.definitions} |->
        b.definitions[CHOOSE n \in DOMAIN b.definitions : Pointer(n) = p]]

\* a Go string as the sequence of its characters; Str is its text
RECURSIVE Str(_)
Str(c) == IF c = << >> THEN "" ELSE Head(c) \o Str(Tail(c))

\* the characters of the keys of the documents
Chars(k) ==
    CASE k = "loginWithCredentials" ->
             <<"l", "o", "g", "i", "n", "W", "i", "t", "h", "C", "r", "e", "d",
               "e", "n", "t", "i", "a", "l", "s">>
      [] k = "logout" -> <<"l", "o", "g", "o", "u", "t">>

LowerCase ==
    <<"a", "b", "c", "d", "e", "f", "g", "h", "i", "j", "k", "l", "m",
      "n", "o", "p", "q", "r", "s", "t", "u", "v", "w", "x", "y", "z">>

UpperCase ==
    <<"A", "B", "C", "D", "E", "F", "G", "H", "I", "J", "K", "L", "M",
      "N", "O", "P", "Q", "R", "S", "T", "U", "V", "W", "X", "Y", "Z">>

\* a mapping that changes the case of every letter
ToOtherCase(r) ==
    IF \E i \in DOMAIN LowerCase : LowerCase[i] = r
    THEN UpperCase[CHOOSE i \in DOMAIN LowerCase : LowerCase[i] = r]
    ELSE IF \E i \in DOMAIN UpperCase : UpperCase[i] = r
    THEN LowerCase[CHOOSE i \in DOMAIN UpperCase : UpperCase[i] = r]
    ELSE r

\* unicode.ToTitle(r) for an ASCII character
ToTitle(r) ==
    IF \E i \in DOMAIN LowerCase : LowerCase[i] = r
    THEN UpperCase[CHOOSE i \in DOMAIN LowerCase : LowerCase[i] = r]
    ELSE r

\* unicode.ToLower(r) for an ASCII character
ToLower(r) ==
    IF \E i \in DOMAIN UpperCase : UpperCase[i] = r
    THEN LowerCase[CHOOSE i \in DOMAIN UpperCase : UpperCase[i] = r]
    ELSE r

\* strings.isSeparator(r) for an ASCII character: letters, digits and the
\* underscore are not separators, every other ASCII character is
isSeparator(r) ==
    /\ r \notin Range(LowerCase) \cup Range(UpperCase)
    /\ r \notin {"0", "1", "2", "3", "4", "5", "6", "7", "8", "9", "_"}

\* strings.Title(c): the letter that begins a word mapped to its title
\* case; prev starts as ' ' and is the character before, as it was
RECURSIVE TitleFrom(_, _)
TitleFrom(prev, c) ==
    IF c = << >>
    THEN << >>
    ELSE << IF isSeparator(prev) THEN ToTitle(Head(c)) ELSE Head(c) >>
             \o TitleFrom(Head(c), Tail(c))

Title(c) == TitleFrom(" ", c)

\* re.ReplaceAllString(p, "") with re = regexp.MustCompile("{|}|-|_")
ReplaceAllString(p) == SelectSeq(p, LAMBDA r : r \notin {"{", "}", "-", "_"})

\* the body of the loop of goNameFromStrings for one part p
goNameFromPart(p) ==
    LET c == ReplaceAllString(p)
    IN  CASE c = <<"i", "d">> -> <<"I", "D">>
          [] c = <<"u", "r", "l">> -> <<"U", "R", "L">>
          [] c = <<"a", "p", "i">> -> <<"A", "P", "I">>
          [] OTHER -> Title(c)

\* goNameFromStrings(parts...)
RECURSIVE goNameFromStrings(_)
goNameFromStrings(parts) ==
    IF parts = << >>
    THEN << >>
    ELSE goNameFromPart(Head(parts)) \o goNameFromStrings(Tail(parts))

\* a resolution that takes a pointer the index does not hold for no pointer
resolvePointerLenient(p, idx) ==
    IF p \in DOMAIN idx
    THEN [s |-> idx[p], err |-> Nil]
    ELSE [s |-> Nil, err |-> Nil]

\* resolvePointerToSchema(p, idx)
resolvePointerToSchema(p, idx) ==
    IF p = ""
    THEN [s |-> Nil, err |-> Nil]
    ELSE IF p \in DOMAIN idx
         THEN [s |-> idx[p], err |-> Nil]
         ELSE [s |-> Nil,
               err |-> NewError("jsonmsg: " \o p \o " does not exist in index")]

\* a call of Parse: where it is, its argument, var spec, the keys the range
\* over spec.Messages has not produced yet, and what it returned; first is
\* the Spec an earlier call returned, gen what ServerSrc made of that Spec,
\* last the latest call of a method of the returned Spec and what it returned
Parsing(at, b, spec, todo, ret) ==
    [at |-> at, b |-> b, spec |-> spec, todo |-> todo, ret |-> ret,
     first |-> Nil, gen |-> Nil, last |-> Nil]

\* endpoints whose path is the key alone
WithProtocolPathOnly(endpoints) ==
    [k \in DOMAIN endpoints |-> [endpoints[k] EXCEPT !.Path = <<k>>]]

\* for k := range spec.Endpoints { spec.Endpoints[k].Path += "/" + k }
WithProtocolPath(endpoints) ==
    [k \in DOMAIN endpoints |-> [endpoints[k] EXCEPT !.Path = Append(@, k)]]

\* Parse(b) up to the range over spec.Messages: json.Unmarshal, raw,
\* endpoints, definitions
ParseEntered(b) ==
    IF b.json # "object"
    THEN Parsing("returned", b, Nil, {},
                 [spec |-> Nil, err |-> NewError("invalid character")])
    ELSE IF b.schema # "valid"
    THEN Parsing("returned", b, Nil, {},
                 [spec |-> Nil, err |-> NewError("jsonschema: invalid schema")])
    ELSE Parsing("messages", b,
                 [ Endpoints |-> WithProtocolPath(b.endpoints),
                   Messages |-> [k \in DOMAIN b.messages |->
                                    [ Msg |-> "", Name |-> "",
                                      In |-> b.messages[k].In,
                                      Outs |-> b.messages[k].Outs,
                                      Group |-> b.messages[k].Group,
                                      InSchema |-> Nil, OutSchemas |-> << >> ]],
                   GroupedMessages |-> [g \in {} |-> {}],
                   Definitions |-> Index(b),
                   Raw |-> b ],
                 DOMAIN b.messages, Nil)

InitParse ==
    /\ Idle
    /\ conn = Nil
    /\ rw = Nil
    /\ ps = Parsing("start", Nil, Nil, {}, Nil)
    /\ nm = Nil
    /\ cs = Nil

\* Parse(b) is called with some document b
ParseCall ==
    /\ ps.at = "start"
    /\ \E b \in Docs : ps' = ParseEntered(b)
    /\ UNCHANGED <<pvars, conn, rw, nm, cs>>

\* the resolved schemas of the out pointers outs, in order
RECURSIVE ResolveOuts(_, _)
ResolveOuts(outs, idx) ==
    IF outs = << >>
    THEN << >>
    ELSE <<resolvePointerToSchema(Head(outs), idx).s>> \o ResolveOuts(Tail(outs), idx)

\* the err Parse returns for message msg: the one of its in pointer, else the
\* one of its first out pointer that does not resolve, else nil
ResolveError(msg, idx) ==
    LET bad == {i \in 1..Len(msg.Outs) :
                    resolvePointerToSchema(msg.Outs[i], idx).err # Nil}
    IN  IF resolvePointerToSchema(msg.In, idx).err # Nil
        THEN resolvePointerToSchema(msg.In, idx).err
        ELSE IF bad # {}
             THEN resolvePointerToSchema(msg.Outs[Min(bad)], idx).err
             ELSE Nil

\* a group index that leaves out the messages without a group
GroupedIfLabelled(groups, g, k) ==
    IF g = ""
    THEN groups
    ELSE [x \in DOMAIN groups \cup {g} |->
            IF x = g
            THEN (IF g \in DOMAIN groups THEN groups[g] ELSE {}) \cup {k}
            ELSE groups[x]]

\* spec.GroupedMessages[g][k] = spec.Messages[k]: the group index, label ->
\* the keys k whose entry points to spec.Messages[k]
Grouped(groups, g, k) ==
    [x \in DOMAIN groups \cup {g} |->
        IF x = g
        THEN (IF g \in DOMAIN groups THEN groups[g] ELSE {}) \cup {k}
        ELSE groups[x]]

\* a loop body that appends only the out schemas that are not nil
ParseMessageSkipEmpty(k) ==
    /\ ps.at = "messages"
    /\ k \in ps.todo
    /\ LET msg == ps.spec.Messages[k]
           idx == ps.spec.Definitions
           err == ResolveError(msg, idx)
       IN  IF err # Nil
           THEN ps' = [ps EXCEPT !.at = "returned",
                                 !.ret = [spec |-> Nil, err |-> err]]
           ELSE ps' = [ps EXCEPT
                          !.todo = @ \ {k},
                          !.spec.Messages[k] =
                              [msg EXCEPT
                                  !.Msg = k,
                                  !.Name = Str(goNameFromStrings(<<Chars(k)>>)),
                                  !.InSchema = resolvePointerToSchema(msg.In, idx).s,
                                  !.OutSchemas =
                                      SelectSeq(ResolveOuts(msg.Outs, idx),
                                                LAMBDA x : x # Nil)],
                          !.spec.GroupedMessages = Grouped(@, msg.Group, k)]
    /\ UNCHANGED <<pvars, conn, rw, nm, cs>>

\* for k := range spec.Messages: one pass of the loop body, for the key k
\* that the range produces next (a map is ranged over in no fixed order)
ParseMessage(k) ==
    /\ ps.at = "messages"
    /\ k \in ps.todo
    /\ LET msg == ps.spec.Messages[k]
           idx == ps.spec.Definitions
           err == ResolveError(msg, idx)
       IN  IF err # Nil
           THEN ps' = [ps EXCEPT !.at = "returned",
                                 !.ret = [spec |-> Nil, err |-> err]]
           ELSE ps' = [ps EXCEPT
                          !.todo = @ \ {k},
                          !.spec.Messages[k] =
                              [msg EXCEPT
                                  !.Msg = k,
                                  !.Name = Str(goNameFromStrings(<<Chars(k)>>)),
                                  !.InSchema = resolvePointerToSchema(msg.In, idx).s,
                                  !.OutSchemas = ResolveOuts(msg.Outs, idx)],
                          !.spec.GroupedMessages = Grouped(@, msg.Group, k)]
    /\ UNCHANGED <<pvars, conn, rw, nm, cs>>

\* return &spec, nil
ParseReturn ==
    /\ ps.at = "messages"
    /\ ps.todo = {}
    /\ ps' = [ps EXCEPT !.at = "returned", !.ret = [spec |-> ps.spec, err |-> Nil]]
    /\ UNCHANGED <<pvars, conn, rw, nm, cs>>

\* a serialization of the Spec's fields instead of its raw document
JSONSpecOfFields(s) ==
    [err |-> Nil, bytes |-> [s.Raw EXCEPT !.endpoints = s.Endpoints, !.indent = "  "]]

\* s.JSONSpec(): s.Raw unmarshalled into an interface{} and marshalled with
\* MarshalIndent(o, "", "  "): the same JSON value, written anew
JSONSpec(s) ==
    [err |-> Nil, bytes |-> [s.Raw EXCEPT !.indent = "  "]]

\* out, err := spc.JSONSpec(); spc2, err := Parse(out), up to the range over
\* the messages
Reparse ==
    /\ ps.at = "returned"
    /\ ps.ret.err = Nil
    /\ ps.first = Nil
    /\ ps' = [ParseEntered(JSONSpec(ps.ret.spec).bytes) EXCEPT
                 !.first = ps.ret.spec, !.gen = ps.gen]
    /\ UNCHANGED <<pvars, conn, rw, nm, cs>>

\* whether some out schema of some message of s is nil
HasNilOutSchema(s) ==
    \E k \in DOMAIN s.Messages : Nil \in Range(s.Messages[k].OutSchemas)

\* s.HTTPSpec(): httpSpecTemplate executed over s; the template calls
\* .Endpoints.http.String outside any {{ if }} and .PointerName on every out
\* schema, and a call on a nil pointer is an execution error
HTTPSpec(s) ==
    IF "http" \notin DOMAIN s.Endpoints
    THEN [err |-> NewError("template: spec: error calling String"), html |-> Nil]
    ELSE IF HasNilOutSchema(s)
    THEN [err |-> NewError("template: spec: nil pointer evaluating PointerName"),
          html |-> Nil]
    ELSE [err |-> Nil, html |-> [html |-> s.Raw]]

\* ServerSrc(s): generateOutTypes dereferences every out schema (o.Name);
\* generateHTTPHandler writes the handlers of the protocols s declares;
\* generateEmbeddedHTMLSpec returns the err of s.HTTPSpec()
ServerSrc(s) ==
    IF HasNilOutSchema(s)
    THEN [panic |-> TRUE, err |-> Nil, bindings |-> {}]
    ELSE IF HTTPSpec(s).err # Nil
    THEN [panic |-> FALSE, err |-> HTTPSpec(s).err, bindings |-> {}]
    ELSE [panic |-> FALSE, err |-> Nil,
          bindings |-> {k \in Protocols : k \in DOMAIN s.Endpoints}]

\* golang.ServerSrc is called with the Spec that Parse returned
Generate ==
    /\ ps.at = "returned"
    /\ ps.ret.err = Nil
    /\ ps.first = Nil
    /\ ps.gen = Nil
    /\ ps' = [ps EXCEPT !.gen = ServerSrc(ps.ret.spec)]
    /\ UNCHANGED <<pvars, conn, rw, nm, cs>>

\* what a method of the returned Spec was called with and returned; prev is
\* what the call before returned when it was the same call
Called(op, arg, out, prev) == [op |-> op, arg |-> arg, out |-> out, prev |-> prev]

\* a JSONSpec that keeps the bytes it wrote as the Spec's raw bytes
CallJSONSpecCaching ==
    /\ ps.at = "returned"
    /\ ps.ret.err = Nil
    /\ ps.first = Nil
    /\ ps' = [ps EXCEPT !.last = Called("JSONSpec", Nil, JSONSpec(ps.ret.spec), Nil),
                        !.ret.spec.Raw = JSONSpec(ps.ret.spec).bytes]
    /\ UNCHANGED <<pvars, conn, rw, nm, cs>>

\* s.JSONSpec() is called on the Spec that Parse returned
CallJSONSpec ==
    /\ ps.at = "returned"
    /\ ps.ret.err = Nil
    /\ ps.first = Nil
    /\ ps' = [ps EXCEPT !.last = Called("JSONSpec", Nil, JSONSpec(ps.ret.spec), Nil)]
    /\ UNCHANGED <<pvars, conn, rw, nm, cs>>

\* s.HTTPSpec() is called on the Spec that Parse returned
CallHTTPSpec ==
    /\ ps.at = "returned"
    /\ ps.ret.err = Nil
    /\ ps.first = Nil
    /\ ps' = [ps EXCEPT !.last = Called("HTTPSpec", Nil, HTTPSpec(ps.ret.spec), Nil)]
    /\ UNCHANGED <<pvars, conn, rw, nm, cs>>

\* (*jsonschema.Schema).NewInstance(idx) for a definition of the documents:
\* an object with the sample "string" for each of its string properties
SchemaNewInstance(def, idx) ==
    [data |-> [p \in Range(def.Properties) |-> "string"], err |-> Nil]

\* a NewInstance that sets data for every message
NewInstanceAlwaysData(msg, s) ==
    IF msg.InSchema = Nil
    THEN [inst |-> [msg |-> msg.Msg, data |-> [p \in {} |-> "string"]], err |-> Nil]
    ELSE [inst |-> [msg |-> msg.Msg,
                    data |-> SchemaNewInstance(msg.InSchema, s.Definitions).data],
          err |-> Nil]

\* (m *Message).NewInstance() for the message msg of Spec s
NewInstance(msg, s) ==
    IF msg.InSchema = Nil
    THEN [inst |-> [msg |-> msg.Msg], err |-> Nil]
    ELSE IF SchemaNewInstance(msg.InSchema, s.Definitions).err # Nil
    THEN [inst |-> Nil, err |-> SchemaNewInstance(msg.InSchema, s.Definitions).err]
    ELSE [inst |-> [msg |-> msg.Msg,
                    data |-> SchemaNewInstance(msg.InSchema, s.Definitions).data],
          err |-> Nil]

\* spec.Messages[k].NewInstance() is called for some message k
CallNewInstance ==
    /\ ps.at = "returned"
    /\ ps.ret.err = Nil
    /\ ps.first = Nil
    /\ \E k \in DOMAIN ps.ret.spec.Messages :
          ps' = [ps EXCEPT !.last =
                    Called("NewInstance", k,
                           NewInstance(ps.ret.spec.Messages[k], ps.ret.spec), Nil)]
    /\ UNCHANGED <<pvars, conn, rw, nm, cs>>

\* the byte of an ASCII character
Byte(r) ==
    IF \E i \in DOMAIN UpperCase : UpperCase[i] = r
    THEN 64 + (CHOOSE i \in DOMAIN UpperCase : UpperCase[i] = r)
    ELSE IF \E i \in DOMAIN LowerCase : LowerCase[i] = r
    THEN 96 + (CHOOSE i \in DOMAIN LowerCase : LowerCase[i] = r)
    ELSE CASE r = "_" -> 95 [] r = "." -> 46 [] r = "-" -> 45 [] OTHER -> 32

\* a < b for two Go strings: the order of their bytes
RECURSIVE Less(_, _)
Less(a, b) ==
    IF b = << >> THEN FALSE
    ELSE IF a = << >> THEN TRUE
    ELSE IF Byte(Head(a)) # Byte(Head(b)) THEN Byte(Head(a)) < Byte(Head(b))
    ELSE Less(Tail(a), Tail(b))

\* key k put into the ascending keys at its place
RECURSIVE Insert(_, _)
Insert(k, keys) ==
    IF keys = << >> THEN <<k>>
    ELSE IF Less(Chars(k), Chars(Head(keys))) THEN <<k>> \o keys
    ELSE <<Head(keys)>> \o Insert(k, Tail(keys))

\* keys left in the order the range gave them
inRangeOrder(keys) == keys

\* sort.Strings(keys)
RECURSIVE sortStrings(_)
sortStrings(keys) ==
    IF keys = << >> THEN << >> ELSE Insert(Head(keys), sortStrings(Tail(keys)))

\* the orders in which a range over a map with the keys S can produce them
RangeOrders(S) ==
    {o \in [1..Cardinality(S) -> S] : \A i, j \in DOMAIN o : i # j => o[i] # o[j]}

\* the line generateInterfaceType writes for message msg
InterfaceLine(msg) ==
    IF msg.InSchema # Nil
    THEN IF Len(msg.OutSchemas) > 0
         THEN msg.Name \o "(*" \o msg.InSchema.Name \o ") (*" \o msg.Name \o "Outs, error)"
         ELSE msg.Name \o "(*" \o msg.InSchema.Name \o ") error"
    ELSE IF Len(msg.OutSchemas) > 0
         THEN msg.Name \o "() (*" \o msg.Name \o "Outs, error)"
         ELSE msg.Name \o "() error"

\* generateInterfaceType(s) when the range over s.Messages gives the keys in
\* the order range: the lines between "type API interface {" and "}"
generateInterfaceType(s, range) ==
    LET keys == sortStrings(range)
    IN  [src |-> [i \in DOMAIN keys |-> InterfaceLine(s.Messages[keys[i]])],
         err |-> Nil]

\* generateInterfaceType is called with the Spec that Parse returned
GenerateInterface ==
    /\ ps.at = "returned"
    /\ ps.ret.err = Nil
    /\ ps.first = Nil
    /\ \E range \in RangeOrders(DOMAIN ps.ret.spec.Messages) :
          ps' = [ps EXCEPT !.last =
                    Called("generateInterfaceType", range,
                           generateInterfaceType(ps.ret.spec, range),
                           IF ps.last # Nil /\ ps.last.op = "generateInterfaceType"
                           THEN ps.last.out ELSE Nil)]
    /\ UNCHANGED <<pvars, conn, rw, nm, cs>>

\* the fields generateOutTypes writes into the struct <Name>Outs of message
\* msg, one per out schema: "  %v *%v\n" with o.Name twice
OutsFields(msg) ==
    [i \in DOMAIN msg.OutSchemas |->
        [name |-> msg.OutSchemas[i].Name, type |-> "*" \o msg.OutSchemas[i].Name]]

\* generateOutTypes(s): o.Name on a nil out schema is a nil pointer
\* dereference, the function panics; else one struct per message
generateOutTypes(s) ==
    IF HasNilOutSchema(s)
    THEN [panic |-> TRUE, types |-> Nil]
    ELSE [panic |-> FALSE,
          types |-> [k \in DOMAIN s.Messages |->
                        [name |-> s.Messages[k].Name \o "Outs",
                         fields |-> OutsFields(s.Messages[k])]]]

\* generateOutTypes is called with the Spec that Parse returned
GenerateOutTypes ==
    /\ ps.at = "returned"
    /\ ps.ret.err = Nil
    /\ ps.first = Nil
    /\ ps' = [ps EXCEPT !.last =
                 Called("generateOutTypes", Nil, generateOutTypes(ps.ret.spec), Nil)]
    /\ UNCHANGED <<pvars, conn, rw, nm, cs>>

NextParse ==
    \/ ParseCall
    \/ \E k \in {"loginWithCredentials", "logout"} : ParseMessage(k)
    \/ ParseReturn
    \/ Reparse
    \/ Generate
    \/ CallJSONSpec
    \/ CallHTTPSpec
    \/ CallNewInstance
    \/ GenerateInterface
    \/ GenerateOutTypes

SpecParse == InitParse /\ [][NextParse]_vars

-----------------------------------------------------------------------------
(* goNameFromStrings over the parts of a call *)

\* the longest input of a call, in characters over all its parts
MaxLen == 3

\* the characters of the inputs: the letters of id and api in both cases, a
\* character the expression strips and a separator
Alphabet == {"i", "I", "d", "D", "a", "A", "p", "P", "_", "."}

\* the inputs made of the characters p: p as one part, and p cut in two parts
PartsInputs(p) ==
    {<<p>>} \cup {<<SubSeq(p, 1, i), SubSeq(p, i + 1, Len(p))>> : i \in 0..Len(p)}

\* the longest key of a document with two messages, in characters
MaxKey == 2

\* the characters of the other key of such a document: a letter in both
\* cases, a character the expression strips and a separator
KeyAlphabet == {"a", "A", "_", "."}

Naming(at, parts, name, same, again, other) ==
    [at |-> at, parts |-> parts, name |-> name, same |-> same, again |-> again,
     other |-> other]

\* goNameFromStrings is called with some parts
InitName ==
    /\ Idle
    /\ conn = Nil
    /\ rw = Nil
    /\ ps = Nil
    /\ \E p \in SeqsUpTo(Alphabet, MaxLen) :
          \E parts \in PartsInputs(p) : nm = Naming("called", parts, Nil, Nil, Nil, Nil)
    /\ cs = Nil

\* the call returns
NameReturn ==
    /\ nm.at = "called"
    /\ nm' = [nm EXCEPT !.at = "returned", !.name = goNameFromStrings(nm.parts)]
    /\ UNCHANGED <<pvars, conn, rw, ps, cs>>

\* a second call with the same parts returns
NameSame ==
    /\ nm.at = "returned"
    /\ nm' = [nm EXCEPT !.at = "repeated", !.same = goNameFromStrings(nm.parts)]
    /\ UNCHANGED <<pvars, conn, rw, ps, cs>>

\* a call with what the first call returned as its one part returns
NameAgain ==
    /\ nm.at = "repeated"
    /\ nm' = [nm EXCEPT !.at = "renamed", !.again = goNameFromStrings(<<nm.name>>)]
    /\ UNCHANGED <<pvars, conn, rw, ps, cs>>

\* the loop of Parse over spec.Messages goes on to another key k of the
\* document: spec.Messages[k].Name = goNameFromStrings(k)
NameOther(k) ==
    /\ nm.at = "returned"
    /\ Len(nm.parts) = 1
    /\ Len(nm.parts[1]) <= MaxKey
    /\ k # nm.parts[1]
    /\ nm' = [nm EXCEPT !.at = "looped",
                        !.other = [Msg |-> k, Name |-> goNameFromStrings(<<k>>)]]
    /\ UNCHANGED <<pvars, conn, rw, ps, cs>>

NextName ==
    \/ NameReturn
    \/ NameSame
    \/ NameAgain
    \/ \E k \in SeqsUpTo(KeyAlphabet, MaxKey) : NameOther(k)

SpecName == InitName /\ [][NextName]_vars

-----------------------------------------------------------------------------
(* Several handlers at once: net/http runs every request in a goroutine of  *)
(* its own, and each of them calls the one processMessage closure           *)

\* the handlers running: two websocket connections and one POST request
Conns == {"ws1", "ws2", "post"}

Kind(c) == IF c = "post" THEN "http" ELSE "websocket"

\* the key of the message block that m.Msg enters, "" when it enters none
Match(env) ==
    LET hits == {i \in 1..Len(RangeMessages) :
                    Messages[RangeMessages[i]].Msg = env.Msg}
    IN  IF hits = {} THEN "" ELSE RangeMessages[Min(hits)]

\* processMessage from the envelope to the call of the API method: what it
\* returns, or Nil when it calls the method
Before(env) ==
    IF env.Msg = "fetchSpec"
    THEN [out |-> newValueMessage("spec", newEmbeddedSpec), status |-> StatusOK]
    ELSE IF Match(env) = ""
    THEN [out |-> UnknownMessageErrorMessage, status |-> StatusNotFound]
    ELSE LET msg == Messages[Match(env)]
         IN  IF msg.InSchema = Nil
             THEN Nil
             ELSE IF UnmarshalData(env.Data, msg.InSchema).err # Nil
             THEN [out |-> UnparsableRequestErrorMessage,
                   status |-> StatusUnprocessableEntity]
             ELSE IF Validate(msg.InSchema,
                              UnmarshalData(env.Data, msg.InSchema).v) # Nil
             THEN [out |-> newErrorMessage(
                              Validate(msg.InSchema,
                                       UnmarshalData(env.Data, msg.InSchema).v).Error),
                   status |-> StatusUnprocessableEntity]
             ELSE Nil

\* processMessage from the return of the API method of msg with r
After(msg, r) ==
    IF r.err # Nil
    THEN [out |-> InternalErrorMessage, status |-> StatusInternalServerError]
    ELSE IF msg.OutSchemas = << >>
    THEN [out |-> Nil, status |-> StatusOK]
    ELSE IF r.outs = Nil \/ SelectOut(msg.OutSchemas, r.outs) = 0
    THEN [out |-> InternalErrorMessage, status |-> StatusInternalServerError]
    ELSE LET o == msg.OutSchemas[SelectOut(msg.OutSchemas, r.outs)]
         IN  IF Validate(o, r.outs[o.Name]) # Nil
             THEN [out |-> InternalErrorMessage, status |-> StatusInternalServerError]
             ELSE [out |-> newValueMessage(o.JSONName, r.outs[o.Name]),
                   status |-> StatusOK]

\* the locals of one handler in one pass of its loop: where it is, the bytes
\* read, var m message, what the API method returned, what processMessage
\* returned, and what the handler wrote
Handler(at, frame, env, r, ret, wrote) ==
    [at |-> at, in |-> frame, m |-> env, hres |-> r, resp |-> ret, wrote |-> wrote]

\* one variable m for all the calls of processMessage
Hoisted(c) == "ws1"

\* var m message is declared inside processMessage: each call has its own
Local(c) == c

InitConc ==
    /\ Idle
    /\ conn = Nil
    /\ rw = Nil
    /\ ps = Nil
    /\ nm = Nil
    /\ cs = [c \in Conns |-> Handler("read", Nil, ZeroMessage, Nil, Nil, Nil)]

\* conn.ReadMessage() returns a frame, ioutil.ReadAll(r.Body) the body
ConnRead(c) ==
    /\ cs[c].at = "read"
    /\ \E frame \in WsFrames :
          cs' = [cs EXCEPT ![c] = Handler("parse", frame, cs[c].m, Nil, Nil, Nil)]
    /\ UNCHANGED <<pvars, conn, rw, ps, nm>>

\* conn.ReadMessage() returns an error: the handler returns
ConnReadError(c) ==
    /\ cs[c].at = "read"
    /\ Kind(c) = "websocket"
    /\ cs' = [cs EXCEPT ![c].at = "returned"]
    /\ UNCHANGED <<pvars, conn, rw, ps, nm>>

\* processMessage: var m message; err = json.Unmarshal(in, &m)
ConnParse(c) ==
    /\ cs[c].at = "parse"
    /\ LET r == UnmarshalMessage(cs[c].in)
       IN  cs' = [cs EXCEPT
                     ![Local(c)].m = r.m,
                     ![c].at = IF r.err # Nil THEN "write" ELSE "process",
                     ![c].resp = IF r.err # Nil
                                 THEN [out |-> UnparsableRequestErrorMessage,
                                       status |-> StatusUnprocessableEntity]
                                 ELSE Nil]
    /\ UNCHANGED <<pvars, conn, rw, ps, nm>>

\* processMessage from fetchSpec to its return, the call of the API method
\* and what the method returns included
ConnProcess(c) ==
    /\ cs[c].at = "process"
    /\ LET env == cs[Local(c)].m
       IN  IF Before(env) # Nil
           THEN cs' = [cs EXCEPT ![c].at = "write", ![c].resp = Before(env)]
           ELSE \E r \in HandlerResults(Messages[Match(env)]) :
                   cs' = [cs EXCEPT ![c].at = "write", ![c].hres = r,
                                    ![c].resp = After(Messages[Match(env)], r)]
    /\ UNCHANGED <<pvars, conn, rw, ps, nm>>

\* a websocket handler that writes the status with the envelope
WrittenWithStatus(kind, ret, e) ==
    IF kind = "http"
    THEN [status |-> ret.status,
          body |-> IF e = Nil THEN <<Encode(ret.out)>> ELSE << >>]
    ELSE IF e = Nil THEN MarshalIndent(ret) ELSE Nil

\* what a handler writes for what processMessage returned: the websocket
\* handler the frame of MarshalIndent(out) when that gave no error e, the
\* POST handler the status and what enc.Encode(out) writes, nothing when
\* the encoding gave the error e
Written(kind, ret, e) ==
    IF kind = "http"
    THEN [status |-> ret.status,
          body |-> IF e = Nil THEN <<Encode(ret.out)>> ELSE << >>]
    ELSE IF e = Nil THEN MarshalIndent(ret.out) ELSE Nil

\* conn.WriteMessage(websocket.TextMessage, outMsg) and the next pass of the
\* loop, with new locals; w.WriteHeader(statusCode), enc.Encode(out) and the
\* handler's return
ConnWrite(c) ==
    /\ cs[c].at = "write"
    /\ \E e \in MarshalErrors(cs[c].resp.out) :
          cs' = [cs EXCEPT
                    ![c] = Handler(IF Kind(c) = "http" THEN "returned" ELSE "read",
                                   Nil, ZeroMessage, Nil, Nil,
                                   Written(Kind(c), cs[c].resp, e))]
    /\ UNCHANGED <<pvars, conn, rw, ps, nm>>

NextConc ==
    \/ \E c \in Conns : ConnRead(c)
    \/ \E c \in Conns : ConnReadError(c)
    \/ \E c \in Conns : ConnParse(c)
    \/ \E c \in Conns : ConnProcess(c)
    \/ \E c \in Conns : ConnWrite(c)

SpecConc == InitConc /\ [][NextConc]_vars

-----------------------------------------------------------------------------
(* Reading a state of the processing *)

\* the response a finished processing returned
Returned(out, status) == pc = "done" /\ resp = [out |-> out, status |-> status]

\* the envelope parsed: json.Unmarshal(in, &m) gave no error
EnvelopeParsed == pc \notin {"idle", "EnvelopeParse"} /\ UnmarshalMessage(in).err = Nil

\* the handler returned a record and no error for a message with outputs
ReturnedRecord ==
    /\ hres # Nil
    /\ hres.err = Nil
    /\ hres.outs # Nil
    /\ Messages[matched].OutSchemas # << >>

\* the i-th slot of the returned record, in declared order
Slot(i) == hres.outs[Messages[matched].OutSchemas[i].Name]

\* the positions of the populated slots
Populated == {i \in 1..Len(Messages[matched].OutSchemas) : Slot(i) # Nil}

-----------------------------------------------------------------------------
(* Claims *)

\* C1: for a message with declared outputs whose handler returned a record and
\* no error, once OutputSelect has run the chosen output is the populated slot
\* with the lowest declared index, whatever combination of slots is populated;
\* no later populated slot is chosen, and an out is chosen whenever one is
\* populated.
C1_FirstNonNullChosen ==
    (pc \in {"OutputValidate", "done"} /\ ReturnedRecord) =>
        /\ chosen # 0 <=> Populated # {}
        /\ chosen # 0 =>
              /\ chosen \in Populated
              /\ \A j \in Populated : chosen <= j
              /\ pc = "done" /\ resp.status = StatusOK =>
                    resp.out.Msg = Messages[matched].OutSchemas[chosen].JSONName

\* C1 witness: the second of three slots was chosen while the third is
\* populated too and the first is not.
C1_Witness ==
    /\ pc = "done"
    /\ ReturnedRecord
    /\ Len(Messages[matched].OutSchemas) = 3
    /\ Populated = {2, 3}
    /\ chosen = 2
    /\ resp.status = StatusOK

\* C2: for a message with at least one declared output, when the handler
\* returned no error and either no record or a record with every slot nil, the
\* processing ends with the generic internal error and status 500, and the
\* output is never validated or returned as a success.
C2_NoOutputIsInternalError ==
    (/\ hres # Nil
     /\ hres.err = Nil
     /\ Messages[matched].OutSchemas # << >>
     /\ (hres.outs = Nil \/ Populated = {})) =>
        /\ pc \in {"OutputSelect", "done"}
        /\ pc = "done" => resp = [out |-> InternalErrorMessage,
                                  status |-> StatusInternalServerError]

\* C2 witness: a handler returned a record with every slot nil and no error,
\* and the processing has ended.
C2_Witness ==
    /\ pc = "done"
    /\ ReturnedRecord
    /\ Populated = {}
    /\ resp.status = StatusInternalServerError

\* C3: for a message with an input, when the decoded input fails Validate the
\* processing ends with status 422 and an error envelope whose text is exactly
\* the validator's message; the handler is not invoked.
C3_ValidationFailed ==
    (/\ pc = "done"
     /\ matched # ""
     /\ Messages[matched].InSchema # Nil
     /\ data # Nil
     /\ Validate(Messages[matched].InSchema, data) # Nil) =>
        /\ resp = [out |-> [Msg |-> "error",
                            Data |-> [Error |->
                                Validate(Messages[matched].InSchema, data).Error]],
                   status |-> StatusUnprocessableEntity]
        /\ invoked = << >>

\* C3 witness: sayHello sent without the required property message is answered
\* 422 with the text naming the missing property.
C3_Witness ==
    /\ Returned(newErrorMessage("invalid message: missing message"),
                StatusUnprocessableEntity)
    /\ matched = "sayHello"
    /\ data = [type |-> "Message", fields |-> << >>]

\* C4: when the chosen output fails its own Validate the processing ends with
\* status 500 and the generic internal error envelope, and the validator's
\* message is not the text of the response.
C4_OutputValidationIsInternalError ==
    (/\ pc = "done"
     /\ chosen # 0
     /\ Validate(Messages[matched].OutSchemas[chosen], Slot(chosen)) # Nil) =>
        /\ resp = [out |-> InternalErrorMessage, status |-> StatusInternalServerError]
        /\ resp.out.Data.Error #
              Validate(Messages[matched].OutSchemas[chosen], Slot(chosen)).Error

\* C4 witness: sayHello got a valid input and its handler returned a Message
\* without the required property.
C4_Witness ==
    /\ pc = "done"
    /\ matched = "sayHello"
    /\ chosen = 1
    /\ Slot(1) = [type |-> "Message", fields |-> << >>]
    /\ resp.status = StatusInternalServerError

\* C5: when the handler returned an error the processing ends with status 500
\* and the generic internal error envelope, the same response whatever the
\* cause of the error (and whatever record came with it): no cause is the text
\* of the response.
C5_HandlerErrorOpaque ==
    (pc = "done" /\ hres # Nil /\ hres.err # Nil) =>
        /\ resp = [out |-> InternalErrorMessage, status |-> StatusInternalServerError]
        /\ \A c \in Causes : resp.out.Data.Error # c.Error

\* C5 witness: a handler returned an error together with a populated record.
C5_Witness ==
    /\ pc = "done"
    /\ hres # Nil
    /\ hres.err = NewError("cause 2")
    /\ hres.outs # Nil
    /\ resp.status = StatusInternalServerError

\* C6: when the envelope parsed and its msg is neither fetchSpec nor a declared
\* message key, the processing ends with the unknown message envelope and
\* status 404, no message block is entered and no handler is invoked.
C6_UnknownMessage ==
    (/\ EnvelopeParsed
     /\ m.Msg # "fetchSpec"
     /\ \A k \in DOMAIN Messages : Messages[k].Msg # m.Msg) =>
        /\ pc \in {"FetchSpec", "Dispatch", "done"}
        /\ matched = ""
        /\ invoked = << >>
        /\ pc = "done" => resp = [out |-> UnknownMessageErrorMessage,
                                  status |-> StatusNotFound]

\* C6 witness: the envelope {"msg": "unknownMsg", ...} was answered.
C6_Witness ==
    /\ pc = "done"
    /\ EnvelopeParsed
    /\ m.Msg = "unknownMsg"
    /\ resp.status = StatusNotFound

\* C7: when the inbound bytes cannot be decoded as an envelope, the processing
\* ends with the unparsable message envelope and status 422 whatever message
\* the bytes were meant for, and no handler is invoked.
C7_UnparsableEnvelope ==
    (pc \notin {"idle", "EnvelopeParse"} /\ UnmarshalMessage(in).err # Nil) =>
        /\ Returned(UnparsableRequestErrorMessage, StatusUnprocessableEntity)
        /\ matched = ""
        /\ invoked = << >>

\* C7 witness: bytes that are no JSON, sent for a declared message, were
\* answered.
C7_Witness ==
    /\ pc = "done"
    /\ in = [json |-> "garbage", msg |-> "loginWithCredentials"]

\* C8: an envelope that parsed with msg fetchSpec is answered before the
\* message blocks are tried: no block is entered and no handler is invoked, and
\* the processing ends with status 200 and the envelope spec carrying the
\* embedded spec document, also though the Spec declares a message with the key
\* fetchSpec.
C8_FetchSpecIntercepted ==
    (EnvelopeParsed /\ m.Msg = "fetchSpec") =>
        /\ pc \in {"FetchSpec", "done"}
        /\ matched = ""
        /\ invoked = << >>
        /\ pc = "done" => resp = [out |-> [Msg |-> "spec", Data |-> newEmbeddedSpec],
                                  status |-> StatusOK]

\* C8 witness: fetchSpec was answered under a Spec that declares a message with
\* the key fetchSpec.
C8_Witness ==
    /\ pc = "done"
    /\ EnvelopeParsed
    /\ m.Msg = "fetchSpec"
    /\ "fetchSpec" \in DOMAIN Messages
    /\ resp.status = StatusOK

\* C9: when an output was chosen and passes its Validate, the processing ends
\* with status 200 and an envelope whose msg is the chosen output's wire name
\* and whose data is the chosen slot's payload, also when the chosen output is
\* the definition named error.
C9_SuccessCarriesChosenOutput ==
    (/\ pc = "done"
     /\ chosen # 0
     /\ Validate(Messages[matched].OutSchemas[chosen], Slot(chosen)) = Nil) =>
        resp = [out |-> [Msg |-> Messages[matched].OutSchemas[chosen].JSONName,
                         Data |-> Slot(chosen)],
                status |-> StatusOK]

\* C9 witness: loginWithCredentials answered with only the error slot
\* populated: the envelope error with the handler's payload and status 200.
C9_Witness ==
    /\ pc = "done"
    /\ matched = "loginWithCredentials"
    /\ ReturnedRecord
    /\ Populated = {2}
    /\ Returned([Msg |-> "error",
                 Data |-> [type |-> "Error", fields |-> [error |-> 1]]], StatusOK)

\* C10: for a message with no declared outputs whose handler returned no
\* error, the processing ends with status 200 and an envelope whose msg is the
\* ok sentinel and which has no data.
C10_NoOutputEnvelope ==
    (/\ pc = "done"
     /\ hres # Nil
     /\ hres.err = Nil
     /\ Messages[matched].OutSchemas = << >>) =>
        /\ resp.status = StatusOK
        /\ resp.out # Nil
        /\ resp.out.Msg = "ok"

-----------------------------------------------------------------------------
(* Reading a state of the websocket handler *)

\* the statuses processMessage returned for the frames answered so far
ReplyStatuses == {conn.replies[k].status : k \in 1..Len(conn.replies)}

\* the handler is back at conn.ReadMessage with every frame read dealt with
Receiving == conn.at = "read"

\* C11: on one connection the outbound frames answer the inbound frames one
\* for one in arrival order: whenever the loop is back at its read, as many
\* frames were written as were read, and the k-th frame written is the
\* serialization of what processMessage returned for the k-th frame read,
\* whatever the frames were.
C11_OneForOneInOrder ==
    Receiving =>
        /\ Len(conn.outbound) = conn.read
        /\ \A k \in 1..Len(conn.outbound) :
              conn.outbound[k] = MarshalIndent(conn.replies[k].out)

\* C12: no outcome of processing a frame ends the receive loop: the handler
\* of an upgraded connection returns only from its read, with the read's error.
C12_OnlyReadFailureEndsLoop ==
    [][(conn.upgraded /\ conn.at # "returned" /\ conn'.at = "returned")
           => (conn.at = "read" /\ conn'.readErr # Nil)]_vars

\* C12 witness: three frames were answered 422, 404 and 500 in turn and the
\* loop is at its read again.
C12_Witness ==
    /\ Receiving
    /\ Len(conn.replies) = 3
    /\ conn.replies[1].status = StatusUnprocessableEntity
    /\ conn.replies[2].status = StatusNotFound
    /\ conn.replies[3].status = StatusInternalServerError

\* C13: a failed read ends the receive loop and closes the connection, and
\* the read is not tried again.
C13_ReadFailureCloses ==
    conn.readErr # Nil => (conn.at = "returned" /\ conn.closed)

-----------------------------------------------------------------------------
(* Reading a state of an HTTP exchange *)

\* the handler registered for target has returned
Served(target) == rw.at = "served" /\ rw.req.target = target

\* processMessage was not entered and no API method was called
NothingProcessed == pc = "idle" /\ invoked = << >>

\* C14: on the HTTP message endpoint a request whose method is neither POST
\* nor OPTIONS is answered 405 with the envelope 'only POST method allowed',
\* and processMessage is not run for it.
C14_OtherMethodNotAllowed ==
    (Served("http") /\ rw.req.method \notin {"POST", "OPTIONS"}) =>
        /\ rw.status = StatusMethodNotAllowed
        /\ rw.body = <<Encode(newErrorMessage("only POST method allowed"))>>
        /\ NothingProcessed

\* C14 witness: a PUT to the message endpoint was answered 405.
C14_Witness ==
    /\ Served("http")
    /\ rw.req.method = "PUT"
    /\ rw.status = StatusMethodNotAllowed

\* C15: on the HTTP message endpoint an OPTIONS request is answered 200 with
\* the permissive cross-origin headers and no body; the request body is not
\* read, processMessage is not run and no API method is called.
C15_PreflightNoOp ==
    (Served("http") /\ rw.req.method = "OPTIONS") =>
        /\ rw.status = StatusOK
        /\ rw.header["Access-Control-Allow-Origin"] = "*"
        /\ rw.header["Access-Control-Allow-Methods"] = "POST"
        /\ rw.header["Access-Control-Allow-Headers"] =
              "Content-Type, Access-Control-Allow-Headers"
        /\ rw.body = << >>
        /\ ~rw.bodyRead
        /\ NothingProcessed

\* C15 witness: an OPTIONS request to the message endpoint was answered.
C15_Witness ==
    /\ Served("http")
    /\ rw.req.method = "OPTIONS"
    /\ rw.status = StatusOK
    /\ rw.body = << >>

\* C16: <BasePath>/spec.json and <BasePath>/spec answer a GET with 200 and
\* the machine-readable spec as application/json, respectively the
\* human-readable spec as text/html; every other method is answered 405
\* with the method-not-allowed envelope and not with the spec.
C16_SpecOperations ==
    /\ Served("spec.json") =>
          /\ rw.header["Content-Type"] = "application/json"
          /\ IF rw.req.method = "GET"
             THEN rw.status = StatusOK /\ rw.body = <<Encode(newEmbeddedSpec)>>
             ELSE /\ rw.status = StatusMethodNotAllowed
                  /\ rw.body = <<Encode(InvalidMethodErrorMessage)>>
                  /\ Encode(newEmbeddedSpec) \notin Range(rw.body)
    /\ Served("spec") =>
          /\ rw.header["Content-Type"] = "text/html"
          /\ IF rw.req.method = "GET"
             THEN rw.status = StatusOK /\ rw.body = <<newEmbeddedHTMLSpec>>
             ELSE /\ rw.status = StatusMethodNotAllowed
                  /\ rw.body = <<Encode(InvalidMethodErrorMessage)>>
                  /\ newEmbeddedHTMLSpec \notin Range(rw.body)

\* C16 witness: a HEAD of <BasePath>/spec.json was answered 405.
C16_Witness ==
    /\ Served("spec.json")
    /\ rw.req.method = "HEAD"
    /\ rw.status = StatusMethodNotAllowed

-----------------------------------------------------------------------------
(* Reading a state of Parse and of the generators *)

\* Parse has returned a Spec and no error
Parsed == ps.at = "returned" /\ ps.ret.err = Nil

\* ServerSrc has been called with the Spec that Parse returned for ps.b
Generated == ps.first = Nil /\ ps.gen # Nil

\* the pointers of document b, in and outs of every message
PointersOf(b) ==
    UNION {{b.messages[k].In} \cup Range(b.messages[k].Outs) : k \in DOMAIN b.messages}

\* the non-empty pointers of document b that its index does not hold
DanglingPointers(b) == {p \in PointersOf(b) : p # "" /\ p \notin DOMAIN Index(b)}

\* what can be observed of a Spec apart from its raw bytes
Observed(s) ==
    [ Endpoints |-> s.Endpoints, Messages |-> s.Messages,
      GroupedMessages |-> s.GroupedMessages, Definitions |-> s.Definitions ]

\* C17: for every subset of {http, websocket} that a document declares in
\* its endpoints, Parse succeeds, ServerSrc (with the embedded JSON and HTML
\* specs) succeeds and writes the handlers of exactly the declared protocols.
C17_EverySubsetSynthesized ==
    (Generated /\ ~HasNilOutSchema(ps.ret.spec)) =>
        /\ ~ps.gen.panic
        /\ ps.gen.err = Nil
        /\ ps.gen.bindings = Protocols \cap DOMAIN ps.b.endpoints

\* C18: when a message's in pointer or one of its out pointers is non-empty
\* and not in the index, Parse returns an error that carries such a pointer
\* of the document and a nil Spec, whichever message and position holds it.
C18_DanglingPointerFailsParse ==
    (/\ ps.at = "returned"
     /\ ps.b.json = "object"
     /\ ps.b.schema = "valid"
     /\ DanglingPointers(ps.b) # {}) =>
        /\ ps.ret.spec = Nil
        /\ \E p \in DanglingPointers(ps.b) :
              ps.ret.err = NewError("jsonmsg: " \o p \o " does not exist in index")

\* C18 witness: loginWithCredentials resolved (in and two outs) before the
\* range reached logout, whose only out pointer is not in the index: Parse
\* returned the error with that pointer and no Spec.
C18_Witness ==
    /\ ps.at = "returned"
    /\ ps.first = Nil
    /\ ps.ret.spec = Nil
    /\ ps.ret.err = NewError("jsonmsg: #/definitions/account does not exist in index")
    /\ ps.b.messages["logout"].In = ""
    /\ ps.spec.Messages["loginWithCredentials"].Msg = "loginWithCredentials"
    /\ Len(ps.spec.Messages["loginWithCredentials"].OutSchemas) = 2

\* C19 as stated: in a Spec that Parse returned, every message's InSchema is
\* nil exactly when its in pointer is empty and else the schema the index
\* holds at the pointer, and its OutSchemas are as many as its out pointers,
\* the i-th being the schema the index holds at the i-th pointer.
C19_ResolvedAsPointers ==
    Parsed =>
        \A k \in DOMAIN ps.ret.spec.Messages :
            LET msg == ps.ret.spec.Messages[k]
                idx == ps.ret.spec.Definitions
            IN  /\ (msg.InSchema = Nil) <=> (msg.In = "")
                /\ msg.In # "" => (msg.In \in DOMAIN idx /\ msg.InSchema = idx[msg.In])
                /\ Len(msg.OutSchemas) = Len(msg.Outs)
                /\ \A i \in 1..Len(msg.Outs) :
                      /\ msg.Outs[i] \in DOMAIN idx
                      /\ msg.OutSchemas[i] = idx[msg.Outs[i]]

\* C19 amended: as C19, but the i-th of the OutSchemas is nil when the i-th
\* out pointer is the empty string, and else the schema the index holds at
\* the i-th pointer.
C19_ResolvedAsPointersOrNil ==
    Parsed =>
        \A k \in DOMAIN ps.ret.spec.Messages :
            LET msg == ps.ret.spec.Messages[k]
                idx == ps.ret.spec.Definitions
            IN  /\ (msg.InSchema = Nil) <=> (msg.In = "")
                /\ msg.In # "" => (msg.In \in DOMAIN idx /\ msg.InSchema = idx[msg.In])
                /\ Len(msg.OutSchemas) = Len(msg.Outs)
                /\ \A i \in 1..Len(msg.Outs) :
                      IF msg.Outs[i] = ""
                      THEN msg.OutSchemas[i] = Nil
                      ELSE /\ msg.Outs[i] \in DOMAIN idx
                           /\ msg.OutSchemas[i] = idx[msg.Outs[i]]

\* C19 witness: a Spec with loginWithCredentials in #/definitions/credentials
\* and outs <<"", #/definitions/error>>: a nil first and the error schema as
\* second out schema; logout has neither in nor outs.
C19_Witness ==
    /\ Parsed
    /\ DOMAIN ps.ret.spec.Messages = {"loginWithCredentials", "logout"}
    /\ ps.ret.spec.Messages["logout"].InSchema = Nil
    /\ ps.ret.spec.Messages["loginWithCredentials"].InSchema = Definitions.credentials
    /\ ps.ret.spec.Messages["loginWithCredentials"].Outs = <<"", "#/definitions/error">>
    /\ ps.ret.spec.Messages["loginWithCredentials"].OutSchemas = <<Nil, Definitions.error>>

-----------------------------------------------------------------------------
(* Reading the endpoints and the group index of a Spec *)

\* an endpoint without its last path segment, when that is the protocol's:
\* what SubstringRight .Endpoints.http.String 5 leaves of the http endpoint
StripProtocol(e, k) ==
    IF e.Path # << >> /\ e.Path[Len(e.Path)] = k
    THEN [e EXCEPT !.Path = SubSeq(@, 1, Len(@) - 1)]
    ELSE e

\* the base paths of the endpoints of Spec s
BasePaths(s) == {StripProtocol(s.Endpoints[k], k).Path : k \in DOMAIN s.Endpoints}

\* the group labels under which the group index of s lists key k
LabelsOf(s, k) == {g \in DOMAIN s.GroupedMessages : k \in s.GroupedMessages[g]}

\* C21: after Parse the endpoint of every declared protocol k is the declared
\* URL with the path segment /k appended and nothing else changed, so that
\* stripping the protocol segment gives the declared URL back.
C21_EndpointIsBasePlusProtocol ==
    Parsed =>
        /\ DOMAIN ps.ret.spec.Endpoints = DOMAIN ps.b.endpoints
        /\ \A k \in DOMAIN ps.b.endpoints :
              LET u == ps.b.endpoints[k]
                  e == ps.ret.spec.Endpoints[k]
              IN  /\ e.Scheme = u.Scheme
                  /\ e.Host = u.Host
                  /\ String(e) = String(u) \o "/" \o k
                  /\ StripProtocol(e, k) = u

\* C21 witness: http declared on https://api.specc.io/v1 and websocket on
\* wss://api.specc.io/v1 are https://api.specc.io/v1/http and
\* wss://api.specc.io/v1/websocket in the Spec.
C21_Witness ==
    /\ Parsed
    /\ ps.first = Nil
    /\ DOMAIN ps.b.endpoints = {"http", "websocket"}
    /\ String(ps.b.endpoints["http"]) = "https://api.specc.io/v1"
    /\ String(ps.ret.spec.Endpoints["http"]) = "https://api.specc.io/v1/http"
    /\ String(ps.ret.spec.Endpoints["websocket"]) = "wss://api.specc.io/v1/websocket"

\* C22: in every Spec that Parse returned all endpoints have the same base
\* path: stripping the protocol segment gives one path for every protocol.
C22_OneBasePath ==
    Parsed => Cardinality(BasePaths(ps.ret.spec)) <= 1

\* C23: in every Spec that Parse returned the group index partitions the
\* messages: every key is listed under its message's group label (the empty
\* string when it has none), pointing to that message, and under no other
\* label, and the index lists no key that is not a message.
C23_GroupIndexPartitions ==
    Parsed =>
        /\ \A k \in DOMAIN ps.ret.spec.Messages :
              LabelsOf(ps.ret.spec, k) = {ps.ret.spec.Messages[k].Group}
        /\ \A g \in DOMAIN ps.ret.spec.GroupedMessages :
              /\ ps.ret.spec.GroupedMessages[g] # {}
              /\ ps.ret.spec.GroupedMessages[g] \subseteq DOMAIN ps.ret.spec.Messages

\* C23 witness: loginWithCredentials in group auth and logout without a
\* group: the index has the labels auth and "", one key under each.
C23_Witness ==
    /\ Parsed
    /\ DOMAIN ps.ret.spec.GroupedMessages = {"auth", ""}
    /\ ps.ret.spec.GroupedMessages["auth"] = {"loginWithCredentials"}
    /\ ps.ret.spec.GroupedMessages[""] = {"logout"}

-----------------------------------------------------------------------------
(* Reading a call of goNameFromStrings *)

\* the letters of token c all in lower case
Folded(c) == [i \in DOMAIN c |-> ToLower(c[i])]

\* token c with its first letter capitalized and the rest preserved
FirstCapitalized(c) ==
    IF c = << >> THEN << >> ELSE <<ToTitle(Head(c))>> \o Tail(c)

\* what the table gives for the stripped token c whatever its case, and the
\* token with its first letter capitalized when the table has no entry
Expected(c) ==
    CASE Folded(c) = <<"i", "d">> -> <<"I", "D">>
      [] Folded(c) = <<"u", "r", "l">> -> <<"U", "R", "L">>
      [] Folded(c) = <<"a", "p", "i">> -> <<"A", "P", "I">>
      [] OTHER -> FirstCapitalized(c)

\* the characters that are neither letters nor digits
Punctuation(c) == {r \in Range(c) : isSeparator(r) \/ r = "_"}

\* C24: a call with one part returns ID, URL or API when the stripped token
\* is id, url or api in any casing, and otherwise the stripped token with
\* its first letter capitalized and the rest preserved.
C24_OverridesInEveryCasing ==
    (nm.at # "called" /\ Len(nm.parts) = 1) =>
        nm.name = Expected(ReplaceAllString(nm.parts[1]))

\* C25: two calls with the same parts return the same identifier, and a
\* returned identifier without punctuation is returned unchanged when it is
\* the one part of a further call.
C25_DeterministicIdempotent ==
    /\ nm.at \in {"repeated", "renamed"} => nm.same = nm.name
    /\ (nm.at = "renamed" /\ Punctuation(nm.name) = {}) => nm.again = nm.name

\* C25 witness: the parts a_ and p gave AP, a second call gave AP again, and
\* the call with AP gave AP.
C25_Witness ==
    /\ nm.at = "renamed"
    /\ nm.parts = << <<"a", "_">>, <<"p">> >>
    /\ Str(nm.name) = "AP"
    /\ Punctuation(nm.name) = {}
    /\ nm.same = nm.name
    /\ nm.again = nm.name

-----------------------------------------------------------------------------
(* Reading the calls on a Spec that Parse returned *)

\* the latest call on the returned Spec was op
LastCall(op) == Parsed /\ ps.first = Nil /\ ps.last # Nil /\ ps.last.op = op

\* the keys S in ascending order
Ascending(S) ==
    CHOOSE o \in RangeOrders(S) :
        \A i, j \in DOMAIN o : i < j => Less(Chars(o[i]), Chars(o[j]))

\* C26: the interface generated from a Spec has exactly one line per message,
\* the i-th line being the operation of the i-th key in ascending order,
\* whatever order the range over the messages gave; and a second generation
\* from the same Spec gives the same lines.
C26_InterfaceSortedByKey ==
    LastCall("generateInterfaceType") =>
        LET keys == Ascending(DOMAIN ps.ret.spec.Messages)
            out  == ps.last.out
        IN  /\ out.err = Nil
            /\ Len(out.src) = Cardinality(DOMAIN ps.ret.spec.Messages)
            /\ \A i \in DOMAIN keys :
                  out.src[i] = InterfaceLine(ps.ret.spec.Messages[keys[i]])
            /\ ps.last.prev # Nil => out = ps.last.prev

\* C26 witness: the range gave logout before loginWithCredentials, the
\* interface was generated a second time, and it lists LoginWithCredentials
\* before Logout.
C26_Witness ==
    /\ LastCall("generateInterfaceType")
    /\ ps.last.arg = <<"logout", "loginWithCredentials">>
    /\ ps.last.prev # Nil
    /\ ps.last.out.src =
           <<"LoginWithCredentials(*Credentials) (*LoginWithCredentialsOuts, error)",
             "Logout() error">>

\* C27: NewInstance of a message of a parsed Spec returns an envelope whose
\* msg is the message's key and which has a data field exactly when the
\* message has an input, data being the sample instance of the Definition
\* at the input pointer.
C27_NewInstanceEnvelope ==
    LastCall("NewInstance") =>
        LET k   == ps.last.arg
            msg == ps.ret.spec.Messages[k]
            r   == ps.last.out
        IN  /\ r.err = Nil
            /\ r.inst.msg = k
            /\ ("data" \in DOMAIN r.inst) <=> (msg.In # "")
            /\ msg.In # "" =>
                  r.inst.data =
                      [p \in Range(ps.ret.spec.Definitions[msg.In].Properties) |-> "string"]

\* C27 witness: NewInstance of loginWithCredentials with the input
\* #/definitions/credentials returned msg loginWithCredentials with the data
\* {name: "string", password: "string"}.
C27_Witness ==
    /\ LastCall("NewInstance")
    /\ ps.last.arg = "loginWithCredentials"
    /\ ps.ret.spec.Messages["loginWithCredentials"].In = Pointer("credentials")
    /\ ps.last.out.inst =
           [msg |-> "loginWithCredentials",
            data |-> [name |-> "string", password |-> "string"]]

\* C28: the raw bytes of a Spec that Parse returned are the document given
\* to Parse, and no step after the return (JSONSpec, HTTPSpec, NewInstance,
\* generateInterfaceType, ServerSrc) changes the Spec: its raw bytes,
\* endpoints, messages, group index and definitions; a second Parse of the
\* bytes of JSONSpec leaves the first Spec as it was.
C28_SpecNeverChanges ==
    [][ /\ (ps'.at = "returned" /\ ps'.ret.err = Nil) => ps'.ret.spec.Raw = ps'.b
        /\ (Parsed /\ ps'.at = "returned" /\ ps'.first = ps.first) => ps'.ret = ps.ret
        /\ (Parsed /\ ps.first = Nil /\ ps'.first # Nil) => ps'.first = ps.ret.spec
        /\ (ps.at # "start" /\ ps.first # Nil) => ps'.first = ps.first ]_vars

\* C28 witness: a document not indented by two spaces was parsed, ServerSrc
\* ran, JSONSpec wrote other bytes than the document, and the Spec's raw
\* bytes are still the document.
C28_Witness ==
    /\ LastCall("JSONSpec")
    /\ ps.gen # Nil
    /\ ps.last.out.bytes # ps.b
    /\ ps.ret.spec.Raw = ps.b
    /\ DOMAIN ps.ret.spec.Messages = {"loginWithCredentials", "logout"}

-----------------------------------------------------------------------------
(* Reading the decoding of the input *)

\* the data of the envelope does not decode into the input of the matched message
InputUndecodable ==
    /\ matched # ""
    /\ Messages[matched].InSchema # Nil
    /\ UnmarshalData(m.Data, Messages[matched].InSchema).err # Nil

\* C30: when the data of the envelope cannot be decoded into the input of
\* the matched message (absent data included), the step that decodes it ends
\* the processing with the unparsable message envelope and status 422, data
\* is never validated and no handler is invoked.
C30_UndecodableInput ==
    [][ /\ (pc = "InputDecode" /\ InputUndecodable) =>
              /\ pc' = "done"
              /\ resp' = [out |-> UnparsableRequestErrorMessage,
                          status |-> StatusUnprocessableEntity]
              /\ invoked' = << >>
              /\ hres' = Nil
        /\ (pc' \in {"InputValidate", "Invoke", "HandlerReturn"} /\ matched' # ""
              /\ Messages[matched'].InSchema # Nil) =>
              UnmarshalData(m'.Data, Messages[matched'].InSchema).err = Nil ]_vars

\* C30 witness: sayHello, which has an input, came without data and was
\* answered 422 with the unparsable message envelope, no handler invoked.
C30_Witness ==
    /\ pc = "done"
    /\ InputUndecodable
    /\ m.Data = AbsentData
    /\ resp = [out |-> UnparsableRequestErrorMessage,
               status |-> StatusUnprocessableEntity]
    /\ invoked = << >>

-----------------------------------------------------------------------------
(* Reading the handlers that run at once *)

\* what processMessage returns for the bytes frame when the API method, if
\* it is called, returns r; Nil when r is no result of the method called
Returns(frame, r) ==
    LET u == UnmarshalMessage(frame)
    IN  IF u.err # Nil
        THEN [out |-> UnparsableRequestErrorMessage,
              status |-> StatusUnprocessableEntity]
        ELSE IF Before(u.m) # Nil
        THEN Before(u.m)
        ELSE IF r \notin HandlerResults(Messages[Match(u.m)])
        THEN Nil
        ELSE After(Messages[Match(u.m)], r)

\* C29: under every interleaving of the handlers, a step changes the locals
\* of one handler only, a handler writes only at its own write step, and
\* what it writes is what processMessage returns for the frame that this
\* handler read and the result that the API method gave to this handler.
C29_NoSharedState ==
    [][ \A c \in Conns :
          /\ cs'[c] # cs[c] => \A d \in Conns \ {c} : cs'[d] = cs[d]
          /\ (cs'[c].wrote # cs[c].wrote /\ cs'[c].wrote # Nil) => cs[c].at = "write"
          /\ (cs[c].at = "write" /\ cs'[c].at # "write") =>
                LET exp == Returns(cs[c].in, cs[c].hres)
                IN  /\ exp # Nil
                    /\ cs[c].resp = exp
                    /\ cs'[c].wrote \in {Written(Kind(c), exp, e) :
                                            e \in MarshalErrors(exp.out)} ]_vars

\* C29 witness: ws1 wrote the message of a sayHello frame while ws2 holds
\* the envelope of a fetchSpec frame and the POST request that of a frame
\* with an unknown msg, both before their replies are written.
C29_Witness ==
    /\ cs["ws1"].at = "read"
    /\ cs["ws1"].wrote # Nil
    /\ IsPayloadEnvelope(cs["ws1"].wrote.json)
    /\ cs["ws2"].at = "process"
    /\ cs["ws2"].in.msg = "fetchSpec"
    /\ cs["ws2"].m.Msg = "fetchSpec"
    /\ cs["post"].at = "write"
    /\ cs["post"].in.msg = "unknownMsg"
    /\ cs["post"].resp.status = StatusNotFound

-----------------------------------------------------------------------------
(* Reading the call of the API method and the validation of the chosen out *)

\* the input of the matched message decoded and validated
InputAccepted ==
    /\ UnmarshalData(m.Data, Messages[matched].InSchema).err = Nil
    /\ data = UnmarshalData(m.Data, Messages[matched].InSchema).v
    /\ Validate(Messages[matched].InSchema, data) = Nil

\* C31: in the processing of one envelope the API is called at most once:
\* the only step that calls it is the call of the method of the message
\* whose key is the msg of the envelope, taken once, after the envelope
\* parsed and, when the message has an input, after the input decoded and
\* validated; a processing that returns before that step calls no method.
C31_AtMostOneHandler ==
    [][ /\ invoked' # invoked =>
              \/ pc' = "EnvelopeParse" /\ invoked' = << >>
              \/ /\ pc = "Invoke"
                 /\ invoked = << >>
                 /\ EnvelopeParsed
                 /\ matched # ""
                 /\ matched = m.Msg
                 /\ invoked' = <<Messages[matched].Name>>
                 /\ Messages[matched].InSchema # Nil => InputAccepted
        /\ (pc \in {"EnvelopeParse", "FetchSpec", "Dispatch", "InputDecode",
                    "InputValidate"} /\ pc' = "done") => invoked' = << >> ]_vars

\* C31 witness: sayHello was processed to its end with the one call of
\* SayHello, made with the decoded and validated input.
C31_Witness ==
    /\ pc = "done"
    /\ matched = "sayHello"
    /\ invoked = <<"SayHello">>
    /\ InputAccepted
    /\ resp.status = StatusOK

\* C32: for a message without an input, once the envelope parsed the data
\* is neither decoded nor validated: the method is called whatever data
\* holds, and the processing never ends with status 422.
C32_NoInputSkipsDecode ==
    (EnvelopeParsed /\ matched # "" /\ Messages[matched].InSchema = Nil) =>
        /\ pc \in {"Invoke", "Handler", "OutputSelect", "OutputValidate", "done"}
        /\ data = Nil
        /\ pc # "Invoke" => invoked = <<Messages[matched].Name>>
        /\ pc = "done" => resp.status # StatusUnprocessableEntity

\* C32 witness: notify, which has no input, came with a string as data, and
\* Notify was called and its out returned.
C32_Witness ==
    /\ pc = "done"
    /\ matched = "notify"
    /\ m.Data = [json |-> "string"]
    /\ invoked = <<"Notify">>
    /\ resp.status = StatusOK

\* C33: only the chosen out, the first populated one, is validated, and the
\* result follows from it alone: the processing ends with the internal
\* error and status 500 when it is invalid and with that out and status 200
\* when it is valid, whatever later slots hold.
C33_OnlyChosenValidated ==
    (pc = "done" /\ ReturnedRecord /\ chosen # 0) =>
        LET o == Messages[matched].OutSchemas[chosen]
        IN  IF Validate(o, Slot(chosen)) # Nil
            THEN resp = [out |-> InternalErrorMessage,
                         status |-> StatusInternalServerError]
            ELSE resp = [out |-> newValueMessage(o.JSONName, Slot(chosen)),
                         status |-> StatusOK]

\* C33 witness: notify returned no session, a message without its required
\* property and a valid error: the message was chosen and the processing
\* ended with status 500.
C33_Witness ==
    /\ pc = "done"
    /\ matched = "notify"
    /\ ReturnedRecord
    /\ Populated = {2, 3}
    /\ chosen = 2
    /\ Validate(Messages[matched].OutSchemas[2], Slot(2)) # Nil
    /\ Validate(Messages[matched].OutSchemas[3], Slot(3)) = Nil
    /\ resp.status = StatusInternalServerError

-----------------------------------------------------------------------------
(* Reading the generated outs records *)

\* C34: for every message of a Spec that Parse returned, the generated outs
\* record has one slot per declared out pointer, in the order of the
\* pointers, each slot with a name of its own and of the type of a resolved
\* Definition, also when an out pointer is empty or two name one Definition.
C34_OneSlotPerOutput ==
    LastCall("generateOutTypes") =>
        /\ ~ps.last.out.panic
        /\ \A k \in DOMAIN ps.ret.spec.Messages :
              LET msg    == ps.ret.spec.Messages[k]
                  fields == ps.last.out.types[k].fields
              IN  /\ Len(fields) = Len(msg.Outs)
                  /\ \A i \in DOMAIN fields :
                        /\ msg.Outs[i] \in DOMAIN ps.ret.spec.Definitions
                        /\ fields[i].type =
                              "*" \o ps.ret.spec.Definitions[msg.Outs[i]].Name
                  /\ \A i, j \in DOMAIN fields :
                        i # j => fields[i].name # fields[j].name

-----------------------------------------------------------------------------
(* Reading what the two transports wrote *)

\* handler c is about to write what processMessage returned to it
Writing(c) == cs[c].at = "write"

\* the envelope that the frame or the body w holds, Nil when nothing was written
EnvelopeOf(kind, w) ==
    IF kind = "http"
    THEN IF w.body = << >> THEN Nil ELSE [env |-> w.body[1].json]
    ELSE IF w = Nil THEN Nil ELSE [env |-> w.json]

\* C35: a websocket handler and the POST handler that got the same bytes
\* and the same result of the API method got the same return of
\* processMessage, and what each of them then writes, when the encoding
\* succeeds, is the encoding of the envelope of that return, indented
\* alike; the POST handler writes the status of the return with it.
C35_SameEnvelopeOnBothTransports ==
    [][ \A c \in Conns :
          /\ (/\ Kind(c) = "websocket"
              /\ Writing(c)
              /\ Writing("post")
              /\ cs[c].in = cs["post"].in
              /\ cs[c].hres = cs["post"].hres) => cs[c].resp = cs["post"].resp
          /\ (Writing(c) /\ ~Writing(c)') =>
                /\ EnvelopeOf(Kind(c), cs'[c].wrote) \in {Nil, [env |-> cs[c].resp.out]}
                /\ Kind(c) = "http" => cs'[c].wrote.status = cs[c].resp.status
                /\ Kind(c) = "http" /\ cs'[c].wrote.body # << >> =>
                      cs'[c].wrote.body[1].indent = MarshalIndent(cs[c].resp.out).indent ]_vars

\* C35 witness: ws1 and the POST request both hold the return of
\* processMessage for sayHello with a message, for which the method returned
\* the same record to both: the same message envelope with status 200.
C35_Witness ==
    /\ Writing("ws1")
    /\ Writing("post")
    /\ cs["ws1"].in = cs["post"].in
    /\ cs["ws1"].in.msg = "sayHello"
    /\ cs["ws1"].hres # Nil
    /\ cs["ws1"].hres = cs["post"].hres
    /\ cs["ws1"].resp = cs["post"].resp
    /\ IsPayloadEnvelope(cs["ws1"].resp.out)
    /\ cs["post"].resp.status = StatusOK

-----------------------------------------------------------------------------
(* Reading the outcome of a processing *)

\* the outcome that the steps taken lead to, read from what each step left
Outcome ==
    IF UnmarshalMessage(in).err # Nil THEN "UnparsableEnvelope"
    ELSE IF m.Msg = "fetchSpec" THEN "FetchSpec"
    ELSE IF matched = "" THEN "UnknownMessage"
    ELSE IF Messages[matched].InSchema # Nil
            /\ UnmarshalData(m.Data, Messages[matched].InSchema).err # Nil
    THEN "UnparsableEnvelope"
    ELSE IF Messages[matched].InSchema # Nil
            /\ Validate(Messages[matched].InSchema, data) # Nil
    THEN "ValidationFailed"
    ELSE IF hres.err # Nil THEN "InternalError"
    ELSE IF Messages[matched].OutSchemas = << >> THEN "Success"
    ELSE IF hres.outs = Nil \/ chosen = 0 THEN "InternalError"
    ELSE IF Validate(Messages[matched].OutSchemas[chosen], Slot(chosen)) # Nil
    THEN "InternalError"
    ELSE "Success"

\* the status of an outcome
StatusOf(o) ==
    CASE o \in {"Success", "FetchSpec"} -> StatusOK
      [] o \in {"UnparsableEnvelope", "ValidationFailed"} -> StatusUnprocessableEntity
      [] o = "UnknownMessage" -> StatusNotFound
      [] o = "InternalError" -> StatusInternalServerError

\* v is an envelope made by newErrorMessage
IsErrorEnvelope(v) == "Data" \in DOMAIN v /\ "Error" \in DOMAIN v.Data

\* C36: a processing has returned exactly when it is at its end, with one
\* return; its status is 200 exactly when the outcome is a success or the
\* fetchSpec reply; an envelope made by the dispatcher for an error never
\* comes with status 200, and a success never with another status.
C36_StatusMatchesOutcome ==
    /\ resp # Nil <=> pc = "done"
    /\ pc = "done" =>
          /\ resp.status = StatusOf(Outcome)
          /\ resp.status = StatusOK <=> Outcome \in {"Success", "FetchSpec"}
          /\ Outcome \notin {"Success", "FetchSpec"} <=> IsErrorEnvelope(resp.out)
          /\ Outcome = "UnparsableEnvelope" => resp.out = UnparsableRequestErrorMessage
          /\ Outcome = "UnknownMessage" => resp.out = UnknownMessageErrorMessage
          /\ Outcome = "InternalError" => resp.out = InternalErrorMessage

\* C36 witness: the handler of loginWithCredentials returned an error
\* together with a populated record, and the processing ended with the
\* internal error envelope and status 500.
C36_Witness ==
    /\ pc = "done"
    /\ matched = "loginWithCredentials"
    /\ hres # Nil
    /\ hres.err # Nil
    /\ hres.outs # Nil
    /\ Outcome = "InternalError"
    /\ resp = [out |-> InternalErrorMessage, status |-> StatusInternalServerError]

-----------------------------------------------------------------------------
(* Reading the order of the steps on one connection *)

\* C37: on one connection a frame is read only when the loop is at its read
\* and every frame read before has had its reply written or its
\* serialization fail, and a method is called only for the one frame that
\* is being processed: two calls for one connection never overlap.
C37_OneFrameAtATime ==
    [][ /\ conn'.read # conn.read =>
              /\ conn.at = "read"
              /\ pc \in {"idle", "done"}
              /\ Len(conn.replies) = conn.read
              /\ conn'.read = conn.read + 1
        /\ (invoked' # invoked /\ invoked' # << >>) =>
              /\ conn.at = "process"
              /\ conn.read = Len(conn.replies) + 1
              /\ invoked = << >>
        /\ pc' \notin {"idle", "done"} =>
              conn'.at = "process" /\ conn'.read = Len(conn'.replies) + 1 ]_vars

\* C37 witness: the second frame is in the call of its method while the
\* reply to the first has been written.
C37_Witness ==
    /\ conn.at = "process"
    /\ conn.read = 2
    /\ Len(conn.replies) = 1
    /\ Len(conn.outbound) = 1
    /\ pc = "Handler"
    /\ invoked = <<"SayHello">>

-----------------------------------------------------------------------------
(* Reading progress on one connection *)

\* C38: under fairness, with methods that return and writes that complete,
\* every frame read on a connection is eventually answered by one outbound
\* frame: from the processing of the k-th frame with j frames written the
\* loop comes back from it with j + 1 frames written.
C38_EveryFrameAnswered ==
    \A k \in 1..MaxFrames : \A j \in 0..MaxFrames :
        (conn.at = "process" /\ conn.read = k /\ Len(conn.outbound) = j)
            ~> (/\ conn.at = "read"
                /\ Len(conn.replies) = k
                /\ Len(conn.outbound) = j + 1)

\* C38, the part on the processing alone: every run of processMessage
\* reaches its return, and the loop reaches its next read.
C38_ProcessingTerminates ==
    /\ (pc \notin {"idle", "done"}) ~> (pc = "done")
    /\ (conn.at = "process") ~> (conn.at = "read")

-----------------------------------------------------------------------------
(* Reading the names of two messages of one document *)

\* C39: two distinct keys of one document have distinct canonical names:
\* when Parse has named a key and then another key, the two Names differ.
C39_DistinctKeysDistinctNames ==
    nm.at = "looped" => nm.other.Name # nm.name

====
